---- MODULE Spec2Model ----
(***************************************************************************)
(* Time series of the RT-RAMSIS data model: SeismicCatalog (events) and    *)
(* Hydraulics (samples) with their reduce and merge operations, and the    *)
(* generic clone used to copy a sample.                                    *)
(*                                                                         *)
(* Objects live in a heap indexed by object identity; a series is the list *)
(* of the identities of its samples.  A behaviour builds two catalogs      *)
(* c1, c2 and two hydraulics h1, h2, calls one operation on c1 or h1, and  *)
(* may call the same operation with the same arguments again.              *)
(***************************************************************************)
EXTENDS Integers, Sequences, FiniteSets, TLC

\* Timestamps are 1..MaxTime (datetime objects: totally ordered, never falsy).
MaxTime == 3
\* Longest series built by Init.
MaxLen == 2
\* Calls made in one behaviour.
MaxCalls == 2

\* Python's None where a number is expected (starttime, endtime, keys).
None == -1
\* Python's None where an object is expected (a parent, an argument).
NoneObj == "None"

Times == 1..MaxTime

VARIABLES
    events,           \* SeismicCatalog.events: catalog -> list of event identities
    seismicevent,     \* the SeismicEvent objects: identity -> attributes
    samples,          \* Hydraulics.samples: hydraulics -> list of sample identities
    hydraulicsample,  \* the HydraulicSample objects: identity -> attributes
    calls,            \* number of calls made so far
    last,             \* the last call: operation, arguments, exception raised
    before,           \* history: the series and objects as the last call found them
    returned,         \* what the last call returned
    forecast,         \* the Forecast objects: identity -> attributes and collections
    forecastscenario, \* the ForecastScenario objects
    forecaststage,    \* the ForecastStage objects of every stage type
    modelrun,         \* the SeismicityModelRun and HazardModelRun objects
    status,           \* the Status objects
    wells,            \* InjectionWell: identity -> owning forecast and scenario
    catalogs,         \* SeismicCatalog of a forecast: identity -> owning forecast
    session,          \* the Session: its objects by state, and what the database holds
    wellsection,      \* the WellSection objects: identity -> attributes
    attributeevents,  \* the AttributeEvents object: its configuration
    registry          \* the listeners registered with sqlalchemy.event

seriesvars == <<events, seismicevent, samples, hydraulicsample>>

forecastvars == <<forecast, forecastscenario, forecaststage, modelrun, status, wells, catalogs>>

othervars == <<session, wellsection, attributeevents, registry>>

vars == <<events, seismicevent, samples, hydraulicsample, calls, last, before, returned,
          forecast, forecastscenario, forecaststage, modelrun, status, wells, catalogs,
          session, wellsection, attributeevents, registry>>

Catalogs == {"c1", "c2"}
Hydraulicses == {"h1", "h2"}

\* Primary key of a persisted series.
SeriesPk(s) == IF s \in {"c1", "h1"} THEN 1 ELSE 2

(***************************************************************************)
(* Helpers on sequences and sets of numbers.                               *)
(***************************************************************************)
Range(s) == {s[i] : i \in 1..Len(s)}

SetMin(S) == CHOOSE x \in S : \A y \in S : x <= y

SetMax(S) == CHOOSE x \in S : \A y \in S : y <= x

\* A fresh object identity: one no object of the heap has.
NewIdentity(heap) == IF DOMAIN heap = {} THEN 1 ELSE SetMax(DOMAIN heap) + 1

\* The heap with object o stored under identity i.
Store(heap, i, o) == [j \in DOMAIN heap \cup {i} |-> IF j = i THEN o ELSE heap[j]]

\* The heap without the objects nothing refers to any more.
Collect(heap, lists) == [j \in {k \in DOMAIN heap : \E s \in DOMAIN lists : k \in Range(lists[s])} |-> heap[j]]

(***************************************************************************)
(* The mapper's view of a class: primary key, foreign keys, relationships. *)
(***************************************************************************)
SeismicEventMapper == [pk |-> {"id"}, fk |-> {"seismiccatalog_id"}, rel |-> {"seismiccatalog"}]

HydraulicSampleMapper == [pk |-> {"id"}, fk |-> {"hydraulics_id"}, rel |-> {"hydraulics"}]

\* type(obj)(): every attribute of a new object is None.
NewObject(obj, mapper) == [k \in DOMAIN obj |-> IF k \in mapper.rel THEN NoneObj ELSE None]

\* Mutant of clone: the primary key is copied as well.
clone_CopiesPrimaryKey(obj, mapper, with_foreignkeys) ==
    LET omit == mapper.rel \cup (IF with_foreignkeys THEN {} ELSE mapper.fk)
    IN  [k \in DOMAIN obj |-> IF k \in omit THEN NewObject(obj, mapper)[k] ELSE obj[k]]

\* utils.clone: copy every attribute but primary key, relationships and
\* (unless with_foreignkeys) foreign keys.
clone(obj, mapper, with_foreignkeys) ==
    LET omit == mapper.pk \cup mapper.rel \cup (IF with_foreignkeys THEN {} ELSE mapper.fk)
        new == NewObject(obj, mapper)
    IN  [k \in DOMAIN obj |-> IF k \in omit THEN new[k] ELSE obj[k]]

\* SeismicEvent.copy
SeismicEvent_copy(e) == clone(e, SeismicEventMapper, FALSE)

\* HydraulicSample.copy
HydraulicSample_copy(s) == clone(s, HydraulicSampleMapper, FALSE)

(***************************************************************************)
(* filter_cond arguments: None, a callable, or something else.             *)
(***************************************************************************)
NoneArg == [type |-> "NoneType", fn |-> "", a |-> None, b |-> None]

NotCallable == [type |-> "int", fn |-> "", a |-> None, b |-> None]

\* lambda s: s.datetime_value == a
At(t) == [type |-> "function", fn |-> "at", a |-> t, b |-> None]

\* lambda s: True
Always == [type |-> "function", fn |-> "always", a |-> None, b |-> None]

\* the closure filter_by_overlapping_datetime over merge_begin, merge_end
filter_by_overlapping_datetime(merge_begin, merge_end) ==
    [type |-> "function", fn |-> "filter_by_overlapping_datetime", a |-> merge_begin, b |-> merge_end]

FilterConds == {NoneArg, NotCallable, Always} \cup {At(t) : t \in Times}

callable(f) == f.type = "function"

\* Mutant of Call: the overlap test excludes the window's bounds.
Call_OpenWindow(f, s) ==
    CASE f.fn = "at" -> s.datetime_value = f.a
      [] f.fn = "always" -> TRUE
      [] f.fn = "filter_by_overlapping_datetime" ->
            s.datetime_value > f.a /\ s.datetime_value < f.b

\* filter_cond(s) for a callable filter_cond
Call(f, s) ==
    CASE f.fn = "at" -> s.datetime_value = f.a
      [] f.fn = "always" -> TRUE
      [] f.fn = "filter_by_overlapping_datetime" ->
            s.datetime_value >= f.a /\ s.datetime_value <= f.b

\* Mutant of FilterNot: the "not" is missing, matching elements are kept.
RECURSIVE FilterNot_KeepsMatching(_, _, _)
FilterNot_KeepsMatching(lst, heap, f) ==
    IF lst = <<>> THEN <<>>
    ELSE IF Call(f, heap[Head(lst)])
         THEN <<Head(lst)>> \o FilterNot_KeepsMatching(Tail(lst), heap, f)
         ELSE FilterNot_KeepsMatching(Tail(lst), heap, f)

\* list(filter(lambda e: not filter_cond(e), lst)), element by element
RECURSIVE FilterNot(_, _, _)
FilterNot(lst, heap, f) ==
    IF lst = <<>> THEN <<>>
    ELSE IF Call(f, heap[Head(lst)])
         THEN FilterNot(Tail(lst), heap, f)
         ELSE <<Head(lst)>> \o FilterNot(Tail(lst), heap, f)

(***************************************************************************)
(* The one-to-many relationships events / seismiccatalog and samples /     *)
(* hydraulics: both sides are kept in step.                                *)
(***************************************************************************)
\* self.<list> = new_list: objects dropped from the list lose their parent.
SetCollection(lists, heap, self, rel, new_list) ==
    [lists |-> [lists EXCEPT ![self] = new_list],
     heap  |-> [j \in DOMAIN heap |->
                  IF j \in Range(new_list) THEN [heap[j] EXCEPT ![rel] = self]
                  ELSE IF j \in Range(lists[self]) THEN [heap[j] EXCEPT ![rel] = NoneObj]
                  ELSE heap[j]]]

\* self.<list>.append(obj) for a new object obj: obj gets self as parent.
AppendNew(lists, heap, self, rel, obj) ==
    LET i == NewIdentity(heap)
    IN  [lists |-> [lists EXCEPT ![self] = Append(@, i)],
         heap  |-> Store(heap, i, [obj EXCEPT ![rel] = self])]

(***************************************************************************)
(* SeismicCatalog                                                          *)
(***************************************************************************)
\* SeismicCatalog.reduce: the outcome as [lists, heap, raised].
SeismicCatalog_reduce(lists, heap, self, filter_cond) ==
    IF lists[self] # <<>> /\ ~callable(filter_cond)
    THEN \* calling filter_cond on the first event raises TypeError
         IF filter_cond = NoneArg
         THEN SetCollection(lists, heap, self, "seismiccatalog", <<>>) @@ [raised |-> "none"]
         ELSE [lists |-> lists, heap |-> heap, raised |-> "TypeError"]
    ELSE SetCollection(lists, heap, self, "seismiccatalog",
                       FilterNot(lists[self], heap, filter_cond)) @@ [raised |-> "none"]

\* Mutant of SeismicCatalog_merge_loop: every event of cat is appended,
\* inside the window or not.
RECURSIVE SeismicCatalog_merge_loop_NoWindow(_, _, _, _, _, _)
SeismicCatalog_merge_loop_NoWindow(src, lists, heap, self, merge_begin, merge_end) ==
    IF src = <<>> THEN [lists |-> lists, heap |-> heap]
    ELSE LET r == AppendNew(lists, heap, self, "seismiccatalog", SeismicEvent_copy(heap[Head(src)]))
         IN  SeismicCatalog_merge_loop_NoWindow(Tail(src), r.lists, r.heap, self, merge_begin, merge_end)

\* Mutant of SeismicCatalog_merge_loop: the event itself is appended, not a
\* copy, which moves it from cat to self.
RECURSIVE SeismicCatalog_merge_loop_NoCopy(_, _, _, _, _, _)
SeismicCatalog_merge_loop_NoCopy(src, lists, heap, self, merge_begin, merge_end) ==
    IF src = <<>> THEN [lists |-> lists, heap |-> heap]
    ELSE LET i == Head(src)
             differs(x) == x # i
             r == IF heap[i].datetime_value >= merge_begin /\ heap[i].datetime_value <= merge_end
                  THEN [lists |-> [c \in DOMAIN lists |->
                                     IF c = self THEN Append(lists[c], i)
                                     ELSE SelectSeq(lists[c], differs)],
                        heap |-> [heap EXCEPT ![i].seismiccatalog = self]]
                  ELSE [lists |-> lists, heap |-> heap]
         IN  SeismicCatalog_merge_loop_NoCopy(Tail(src), r.lists, r.heap, self, merge_begin, merge_end)

\* The loop "for e in cat.events: if ... : self.events.append(e.copy())"
\* over the events src of cat still to visit.
RECURSIVE SeismicCatalog_merge_loop(_, _, _, _, _, _)
SeismicCatalog_merge_loop(src, lists, heap, self, merge_begin, merge_end) ==
    IF src = <<>> THEN [lists |-> lists, heap |-> heap]
    ELSE LET e == heap[Head(src)]
             r == IF e.datetime_value >= merge_begin /\ e.datetime_value <= merge_end
                  THEN AppendNew(lists, heap, self, "seismiccatalog", SeismicEvent_copy(e))
                  ELSE [lists |-> lists, heap |-> heap]
         IN  SeismicCatalog_merge_loop(Tail(src), r.lists, r.heap, self, merge_begin, merge_end)

\* Mutant of SeismicCatalog_merge: starttime == endtime is accepted.
SeismicCatalog_merge_AcceptsEqualBounds(lists, heap, self, cat, starttime, endtime) ==
    IF lists[cat] = <<>>
    THEN [lists |-> lists, heap |-> heap, raised |-> "none"]
    ELSE IF starttime # None /\ endtime # None /\ starttime > endtime
    THEN [lists |-> lists, heap |-> heap, raised |-> "ValueError"]
    ELSE LET cat_times == {heap[e].datetime_value : e \in Range(lists[cat])}
             merge_begin == IF starttime = None THEN SetMin(cat_times) ELSE starttime
             merge_end == IF endtime = None THEN SetMax(cat_times) ELSE endtime
         IN  IF merge_begin > merge_end
             THEN [lists |-> lists, heap |-> heap, raised |-> "ValueError"]
             ELSE LET r == SeismicCatalog_reduce(lists, heap, self,
                               filter_by_overlapping_datetime(merge_begin, merge_end))
                  IN  IF r.raised # "none" THEN r
                      ELSE SeismicCatalog_merge_loop(r.lists[cat], r.lists, r.heap, self,
                                                     merge_begin, merge_end)
                           @@ [raised |-> "none"]

\* Mutant of SeismicCatalog_merge: the bounds are checked before cat.events.
SeismicCatalog_merge_ChecksBoundsFirst(lists, heap, self, cat, starttime, endtime) ==
    IF starttime # None /\ endtime # None /\ starttime >= endtime
    THEN [lists |-> lists, heap |-> heap, raised |-> "ValueError"]
    ELSE IF lists[cat] = <<>>
    THEN [lists |-> lists, heap |-> heap, raised |-> "none"]
    ELSE LET cat_times == {heap[e].datetime_value : e \in Range(lists[cat])}
             merge_begin == IF starttime = None THEN SetMin(cat_times) ELSE starttime
             merge_end == IF endtime = None THEN SetMax(cat_times) ELSE endtime
         IN  IF merge_begin > merge_end
             THEN [lists |-> lists, heap |-> heap, raised |-> "ValueError"]
             ELSE LET r == SeismicCatalog_reduce(lists, heap, self,
                               filter_by_overlapping_datetime(merge_begin, merge_end))
                  IN  IF r.raised # "none" THEN r
                      ELSE SeismicCatalog_merge_loop(r.lists[cat], r.lists, r.heap, self,
                                                     merge_begin, merge_end)
                           @@ [raised |-> "none"]

\* Mutant of SeismicCatalog_merge: the overlapping events of self are not
\* removed before cat's are appended.
SeismicCatalog_merge_NoReduce(lists, heap, self, cat, starttime, endtime) ==
    IF lists[cat] = <<>>
    THEN [lists |-> lists, heap |-> heap, raised |-> "none"]
    ELSE IF starttime # None /\ endtime # None /\ starttime >= endtime
    THEN [lists |-> lists, heap |-> heap, raised |-> "ValueError"]
    ELSE LET cat_times == {heap[e].datetime_value : e \in Range(lists[cat])}
             merge_begin == IF starttime = None THEN SetMin(cat_times) ELSE starttime
             merge_end == IF endtime = None THEN SetMax(cat_times) ELSE endtime
         IN  IF merge_begin > merge_end
             THEN [lists |-> lists, heap |-> heap, raised |-> "ValueError"]
             ELSE SeismicCatalog_merge_loop(lists[cat], lists, heap, self,
                                            merge_begin, merge_end)
                  @@ [raised |-> "none"]

\* SeismicCatalog.merge: the outcome as [lists, heap, raised].
SeismicCatalog_merge(lists, heap, self, cat, starttime, endtime) ==
    IF lists[cat] = <<>>
    THEN [lists |-> lists, heap |-> heap, raised |-> "none"]
    ELSE IF starttime # None /\ endtime # None /\ starttime >= endtime
    THEN [lists |-> lists, heap |-> heap, raised |-> "ValueError"]
    ELSE LET cat_times == {heap[e].datetime_value : e \in Range(lists[cat])}
             merge_begin == IF starttime = None THEN SetMin(cat_times) ELSE starttime
             merge_end == IF endtime = None THEN SetMax(cat_times) ELSE endtime
         IN  IF merge_begin > merge_end
             THEN [lists |-> lists, heap |-> heap, raised |-> "ValueError"]
             ELSE LET r == SeismicCatalog_reduce(lists, heap, self,
                               filter_by_overlapping_datetime(merge_begin, merge_end))
                  IN  IF r.raised # "none" THEN r
                      ELSE SeismicCatalog_merge_loop(r.lists[cat], r.lists, r.heap, self,
                                                     merge_begin, merge_end)
                           @@ [raised |-> "none"]

(***************************************************************************)
(* Hydraulics                                                              *)
(***************************************************************************)
\* Hydraulics.reduce: the outcome as [lists, heap, raised].
Hydraulics_reduce(lists, heap, self, filter_cond) ==
    IF lists[self] # <<>> /\ ~callable(filter_cond)
    THEN \* calling filter_cond on the first sample raises TypeError
         IF filter_cond = NoneArg
         THEN SetCollection(lists, heap, self, "hydraulics", <<>>) @@ [raised |-> "none"]
         ELSE [lists |-> lists, heap |-> heap, raised |-> "TypeError"]
    ELSE SetCollection(lists, heap, self, "hydraulics",
                       FilterNot(lists[self], heap, filter_cond)) @@ [raised |-> "none"]

\* The loop "for s in other.samples: self.samples.append(s.copy())"
\* over the samples src of other still to visit.
RECURSIVE Hydraulics_merge_loop(_, _, _, _)
Hydraulics_merge_loop(src, lists, heap, self) ==
    IF src = <<>> THEN [lists |-> lists, heap |-> heap]
    ELSE LET r == AppendNew(lists, heap, self, "hydraulics", HydraulicSample_copy(heap[Head(src)]))
         IN  Hydraulics_merge_loop(Tail(src), r.lists, r.heap, self)

\* Mutant of Hydraulics_merge: the overlapping samples of self are not
\* removed before other's are appended.
Hydraulics_merge_NoReduce(lists, heap, self, other) ==
    IF other = NoneObj \/ lists[other] = <<>>
    THEN [lists |-> lists, heap |-> heap, raised |-> "none"]
    ELSE Hydraulics_merge_loop(lists[other], lists, heap, self) @@ [raised |-> "none"]

\* Hydraulics.merge: the outcome as [lists, heap, raised]; other may be None.
Hydraulics_merge(lists, heap, self, other) ==
    IF other = NoneObj \/ lists[other] = <<>>
    THEN [lists |-> lists, heap |-> heap, raised |-> "none"]
    ELSE LET other_times == {heap[s].datetime_value : s \in Range(lists[other])}
             first_sample == SetMin(other_times)
             last_sample == SetMax(other_times)
             r == Hydraulics_reduce(lists, heap, self,
                      filter_by_overlapping_datetime(first_sample, last_sample))
         IN  IF r.raised # "none" THEN r
             ELSE Hydraulics_merge_loop(r.lists[other], r.lists, r.heap, self)
                  @@ [raised |-> "none"]

(***************************************************************************)
(* Construction.  The series are built from lists of timestamps in any     *)
(* order; sample i of a series carries i as its payload (magnitude_value   *)
(* or topflow_value), as the test fixtures do, and every sample is         *)
(* persisted: it has a primary key and its parent's foreign key.           *)
(***************************************************************************)
TimeLists == UNION {[1..n -> Times] : n \in 0..MaxLen}

\* SeismicEvent(datetime_value=ts[i], magnitude_value=i - 1) of catalog cat
NewSeismicEvent(pk, t, m, cat) ==
    [id |-> pk, datetime_value |-> t, magnitude_value |-> m,
     seismiccatalog_id |-> SeriesPk(cat), seismiccatalog |-> cat]

\* HydraulicSample(datetime_value=ts[i], topflow_value=i - 1) of hydraulics h
NewHydraulicSample(pk, t, v, h) ==
    [id |-> pk, datetime_value |-> t, topflow_value |-> v,
     hydraulics_id |-> SeriesPk(h), hydraulics |-> h]

Identities(from, n) == [i \in 1..n |-> from + i]

\* c1 = SeismicCatalog(events=[... ts1 ...]); c2 = SeismicCatalog(events=[... ts2 ...])
BuildCatalogs(ts1, ts2) ==
    [c \in Catalogs |-> IF c = "c1" THEN Identities(0, Len(ts1)) ELSE Identities(Len(ts1), Len(ts2))]

BuildSeismicEvents(ts1, ts2) ==
    [i \in 1..(Len(ts1) + Len(ts2)) |->
        IF i <= Len(ts1) THEN NewSeismicEvent(i, ts1[i], i - 1, "c1")
        ELSE NewSeismicEvent(i, ts2[i - Len(ts1)], i - Len(ts1) - 1, "c2")]

\* h1 = Hydraulics(samples=[... ts1 ...]); h2 = Hydraulics(samples=[... ts2 ...])
BuildHydraulics(ts1, ts2) ==
    [h \in Hydraulicses |-> IF h = "h1" THEN Identities(0, Len(ts1)) ELSE Identities(Len(ts1), Len(ts2))]

BuildHydraulicSamples(ts1, ts2) ==
    [i \in 1..(Len(ts1) + Len(ts2)) |->
        IF i <= Len(ts1) THEN NewHydraulicSample(i, ts1[i], i - 1, "h1")
        ELSE NewHydraulicSample(i, ts2[i - Len(ts1)], i - Len(ts1) - 1, "h2")]

\* A call and what it raised.
CallRecord(op, other, starttime, endtime, filter_cond, raised) ==
    [op |-> op, other |-> other, starttime |-> starttime, endtime |-> endtime,
     filter_cond |-> filter_cond, raised |-> raised]

NoCall == CallRecord("init", NoneObj, None, None, NoneArg, "none")

\* An argument or a return value: an object of a class, by the name of a
\* series (ref) or the identity of a sample (id), or a plain value.
Operand(type, ref, id, value) == [type |-> type, ref |-> ref, id |-> id, value |-> value]

TheNone == Operand("NoneType", NoneObj, None, "None")

AnInt == Operand("int", NoneObj, None, "5")

TheBool(b) == Operand("bool", NoneObj, None, IF b THEN "True" ELSE "False")

ACatalog(c) == Operand("SeismicCatalog", c, None, "object")

AHydraulics(h) == Operand("Hydraulics", h, None, "object")

AnEvent(e) == Operand("SeismicEvent", NoneObj, e, "object")

ASample(s) == Operand("HydraulicSample", NoneObj, s, "object")

isinstance(x, type) == x.type = type

\* No forecast exists while the series are exercised.
NoForecast ==
    /\ forecast = <<>>
    /\ forecastscenario = <<>>
    /\ forecaststage = <<>>
    /\ modelrun = <<>>
    /\ status = <<>>
    /\ wells = <<>>
    /\ catalogs = <<>>

\* No session, no well section and no attribute events exist.
NoOthers ==
    /\ session = <<>>
    /\ wellsection = <<>>
    /\ attributeevents = <<>>
    /\ registry = {}

StateBefore ==
    [events |-> events, seismicevent |-> seismicevent,
     samples |-> samples, hydraulicsample |-> hydraulicsample]

Init ==
    \E ts1 \in TimeLists, ts2 \in TimeLists :
        /\ events = BuildCatalogs(ts1, ts2)
        /\ seismicevent = BuildSeismicEvents(ts1, ts2)
        /\ samples = BuildHydraulics(ts1, ts2)
        /\ hydraulicsample = BuildHydraulicSamples(ts1, ts2)
        /\ calls = 0
        /\ last = NoCall
        /\ before = [events |-> BuildCatalogs(ts1, ts2),
                     seismicevent |-> BuildSeismicEvents(ts1, ts2),
                     samples |-> BuildHydraulics(ts1, ts2),
                     hydraulicsample |-> BuildHydraulicSamples(ts1, ts2)]
        /\ returned = TheNone
        /\ NoForecast
        /\ NoOthers

(***************************************************************************)
(* Calls.  The first call is any call; a later call repeats the last one.  *)
(***************************************************************************)
MayCall(call) ==
    /\ calls < MaxCalls
    /\ calls > 0 => call = [last EXCEPT !.raised = "none"]

\* c1.merge(c2, starttime, endtime)
SeismicCatalogMerge(starttime, endtime) ==
    LET r == SeismicCatalog_merge(events, seismicevent, "c1", "c2", starttime, endtime)
    IN  /\ MayCall(CallRecord("SeismicCatalog.merge", "c2", starttime, endtime, NoneArg, "none"))
        /\ events' = r.lists
        /\ seismicevent' = Collect(r.heap, r.lists)
        /\ last' = CallRecord("SeismicCatalog.merge", "c2", starttime, endtime, NoneArg, r.raised)
        /\ calls' = calls + 1
        /\ before' = StateBefore
        /\ returned' = TheNone
        /\ UNCHANGED <<samples, hydraulicsample>>
        /\ UNCHANGED forecastvars
        /\ UNCHANGED othervars

\* c1.reduce(filter_cond)
SeismicCatalogReduce(filter_cond) ==
    LET r == SeismicCatalog_reduce(events, seismicevent, "c1", filter_cond)
    IN  /\ MayCall(CallRecord("SeismicCatalog.reduce", NoneObj, None, None, filter_cond, "none"))
        /\ events' = r.lists
        /\ seismicevent' = Collect(r.heap, r.lists)
        /\ last' = CallRecord("SeismicCatalog.reduce", NoneObj, None, None, filter_cond, r.raised)
        /\ calls' = calls + 1
        /\ before' = StateBefore
        /\ returned' = TheNone
        /\ UNCHANGED <<samples, hydraulicsample>>
        /\ UNCHANGED forecastvars
        /\ UNCHANGED othervars

\* h1.merge(other), other being h2 or None
HydraulicsMerge(other) ==
    LET r == Hydraulics_merge(samples, hydraulicsample, "h1", other)
    IN  /\ MayCall(CallRecord("Hydraulics.merge", other, None, None, NoneArg, "none"))
        /\ samples' = r.lists
        /\ hydraulicsample' = Collect(r.heap, r.lists)
        /\ last' = CallRecord("Hydraulics.merge", other, None, None, NoneArg, r.raised)
        /\ calls' = calls + 1
        /\ before' = StateBefore
        /\ returned' = TheNone
        /\ UNCHANGED <<events, seismicevent>>
        /\ UNCHANGED forecastvars
        /\ UNCHANGED othervars

\* h1.reduce(filter_cond)
HydraulicsReduce(filter_cond) ==
    LET r == Hydraulics_reduce(samples, hydraulicsample, "h1", filter_cond)
    IN  /\ MayCall(CallRecord("Hydraulics.reduce", NoneObj, None, None, filter_cond, "none"))
        /\ samples' = r.lists
        /\ hydraulicsample' = Collect(r.heap, r.lists)
        /\ last' = CallRecord("Hydraulics.reduce", NoneObj, None, None, filter_cond, r.raised)
        /\ calls' = calls + 1
        /\ before' = StateBefore
        /\ returned' = TheNone
        /\ UNCHANGED <<events, seismicevent>>
        /\ UNCHANGED forecastvars
        /\ UNCHANGED othervars

Next ==
    \/ \E starttime \in Times \cup {None}, endtime \in Times \cup {None} :
           SeismicCatalogMerge(starttime, endtime)
    \/ \E filter_cond \in FilterConds : SeismicCatalogReduce(filter_cond)
    \/ \E other \in {"h2", NoneObj} : HydraulicsMerge(other)
    \/ \E filter_cond \in FilterConds : HydraulicsReduce(filter_cond)

Spec == Init /\ [][Next]_vars

(***************************************************************************)
(* Properties.  "before" is the state the last call found, the variables   *)
(* are the state it left.                                                  *)
(***************************************************************************)
Called(op) == calls > 0 /\ last.op = op

\* Timestamps of a list of objects, in list order.
TimesOf(lst, heap) == [i \in 1..Len(lst) |-> heap[lst[i]].datetime_value]

\* The window of the last SeismicCatalog.merge, as the claims define it.
CatTimesBefore == {before.seismicevent[e].datetime_value : e \in Range(before.events["c2"])}

WindowBegin == IF last.starttime = None THEN SetMin(CatTimesBefore) ELSE last.starttime

WindowEnd == IF last.endtime = None THEN SetMax(CatTimesBefore) ELSE last.endtime

\* The window of the last Hydraulics.merge.
OtherTimesBefore == {before.hydraulicsample[s].datetime_value : s \in Range(before.samples["h2"])}

Sorted(ts) == \A i, j \in 1..Len(ts) : i < j => ts[i] <= ts[j]

\* C1: SeismicCatalog.merge(cat, starttime, endtime) with a non-empty cat and
\* a valid window [wb, we] leaves in self the events it held outside the
\* window, the same objects in their previous order, followed by one new copy
\* of each event of cat inside the window, in cat's order; merging into an
\* empty catalog without bounds yields copies of all of cat's events.
C1_MergeKeepsOutsideAppendsInside ==
    (Called("SeismicCatalog.merge") /\ before.events["c2"] # <<>> /\ last.raised = "none") =>
        LET old == before.seismicevent
            inside(e) == WindowBegin <= old[e].datetime_value /\ old[e].datetime_value <= WindowEnd
            outside(e) == ~inside(e)
            kept == SelectSeq(before.events["c1"], outside)
            src == SelectSeq(before.events["c2"], inside)
            new == events["c1"]
        IN  /\ Len(new) = Len(kept) + Len(src)
            /\ SubSeq(new, 1, Len(kept)) = kept
            /\ \A i \in 1..Len(kept) : seismicevent[kept[i]] = old[kept[i]]
            /\ \A i \in 1..Len(src) :
                   LET c == new[Len(kept) + i]
                   IN  /\ c \notin DOMAIN old
                       /\ \A j \in 1..Len(src) : j # i => new[Len(kept) + j] # c
                       /\ seismicevent[c].datetime_value = old[src[i]].datetime_value
                       /\ seismicevent[c].magnitude_value = old[src[i]].magnitude_value
                       /\ seismicevent[c].seismiccatalog = "c1"
            /\ (before.events["c1"] = <<>> /\ last.starttime = None /\ last.endtime = None)
                   => TimesOf(new, seismicevent) = TimesOf(before.events["c2"], old)

\* C1 witness: a merge that kept an event of self, copied an event of cat and
\* left an event of cat outside the window.
C1_Witness ==
    /\ Called("SeismicCatalog.merge") /\ last.raised = "none" /\ calls = 1
    /\ \E e \in Range(events["c1"]) : e \in Range(before.events["c1"])
    /\ \E e \in Range(events["c1"]) : e \notin DOMAIN before.seismicevent
    /\ \E e \in Range(before.events["c2"]) :
           before.seismicevent[e].datetime_value > WindowEnd

\* The test scenario of Hydraulics.merge, in half hours from 00:00: seven
\* hourly samples merged with four half-hourly samples from 03:00.
ScenarioSelf == <<0, 2, 4, 6, 8, 10, 12>>

ScenarioOther == <<6, 7, 8, 9>>

ScenarioMerged ==
    LET r == Hydraulics_merge(BuildHydraulics(ScenarioSelf, ScenarioOther),
                              BuildHydraulicSamples(ScenarioSelf, ScenarioOther), "h1", "h2")
    IN  TimesOf(r.lists["h1"], r.heap)

\* C2: Hydraulics.merge(other) with a non-empty other leaves in self the
\* samples it held outside [min, max] of other's timestamps, in their previous
\* order, followed by copies of all samples of other in other's order, and the
\* result is not re-sorted: the scenario gives 00:00, 01:00, 02:00, 05:00,
\* 06:00, 03:00, 03:30, 04:00, 04:30.
C2_HydraulicsMergeAppendsAll ==
    /\ ScenarioMerged = <<0, 2, 4, 10, 12, 6, 7, 8, 9>>
    /\ (Called("Hydraulics.merge") /\ last.other = "h2" /\ before.samples["h2"] # <<>>) =>
        LET old == before.hydraulicsample
            outside(s) == old[s].datetime_value < SetMin(OtherTimesBefore)
                              \/ old[s].datetime_value > SetMax(OtherTimesBefore)
            kept == SelectSeq(before.samples["h1"], outside)
            src == before.samples["h2"]
            new == samples["h1"]
        IN  /\ last.raised = "none"
            /\ Len(new) = Len(kept) + Len(src)
            /\ SubSeq(new, 1, Len(kept)) = kept
            /\ \A i \in 1..Len(kept) : hydraulicsample[kept[i]] = old[kept[i]]
            /\ \A i \in 1..Len(src) :
                   LET c == new[Len(kept) + i]
                   IN  /\ c \notin DOMAIN old
                       /\ \A j \in 1..Len(src) : j # i => new[Len(kept) + j] # c
                       /\ hydraulicsample[c].datetime_value = old[src[i]].datetime_value
                       /\ hydraulicsample[c].topflow_value = old[src[i]].topflow_value
                       /\ hydraulicsample[c].hydraulics = "h1"

\* C2 witness: a merge after which a kept later sample precedes the copies.
C2_Witness ==
    /\ Called("Hydraulics.merge") /\ last.other = "h2" /\ calls = 1
    /\ before.samples["h2"] # <<>>
    /\ \E s \in Range(samples["h1"]) : s \in Range(before.samples["h1"])
    /\ ~Sorted(TimesOf(samples["h1"], hydraulicsample))
    /\ Sorted(TimesOf(before.samples["h1"], before.hydraulicsample))

\* C3: SeismicCatalog.merge with a non-empty cat raises ValueError exactly
\* when both bounds are given and starttime >= endtime, or only starttime is
\* given and is later than cat's latest event, or only endtime is given and is
\* earlier than cat's earliest event; when it raises, self is left unchanged.
C3_MergeRaisesOnInvalidRange ==
    (Called("SeismicCatalog.merge") /\ before.events["c2"] # <<>>) =>
        LET both == last.starttime # None /\ last.endtime # None
            invalid ==
                \/ both /\ last.starttime >= last.endtime
                \/ last.starttime # None /\ last.endtime = None
                       /\ \A t \in CatTimesBefore : last.starttime > t
                \/ last.starttime = None /\ last.endtime # None
                       /\ \A t \in CatTimesBefore : last.endtime < t
        IN  /\ last.raised = (IF invalid THEN "ValueError" ELSE "none")
            /\ last.raised # "none" =>
                   events = before.events /\ seismicevent = before.seismicevent

\* C3 witness: only starttime given, later than every event of cat, and self
\* holds events.
C3_Witness ==
    /\ Called("SeismicCatalog.merge") /\ last.raised = "ValueError"
    /\ last.starttime # None /\ last.endtime = None
    /\ before.events["c2"] # <<>> /\ events["c1"] # <<>>

\* C4: merging a series without samples (SeismicCatalog.merge with an empty
\* cat, whatever starttime and endtime are; Hydraulics.merge with an empty
\* other or None) raises nothing and leaves self's list unchanged.
C4_MergeOfEmptyIsNoOp ==
    /\ (Called("SeismicCatalog.merge") /\ before.events["c2"] = <<>>) =>
           /\ last.raised = "none"
           /\ events = before.events /\ seismicevent = before.seismicevent
    /\ (Called("Hydraulics.merge") /\ (last.other = NoneObj \/ before.samples["h2"] = <<>>)) =>
           /\ last.raised = "none"
           /\ samples = before.samples /\ hydraulicsample = before.hydraulicsample

\* C4 witness: an empty cat merged with starttime >= endtime into a catalog
\* that holds events.
C4_Witness ==
    /\ Called("SeismicCatalog.merge") /\ before.events["c2"] = <<>>
    /\ last.starttime # None /\ last.endtime # None /\ last.starttime >= last.endtime
    /\ events["c1"] # <<>>

\* Objects of the list new that the heap old did not hold.
NewObjects(new, old) == {c \in Range(new) : c \notin DOMAIN old}

\* C5: the merge window is closed on both sides: a sample of self whose
\* timestamp equals the window start or end is removed, and a sample of the
\* merged-in series whose timestamp equals the window start or end is
\* inserted as a copy.
C5_WindowIsClosed ==
    /\ (Called("SeismicCatalog.merge") /\ before.events["c2"] # <<>> /\ last.raised = "none") =>
           /\ \A e \in Range(before.events["c1"]) :
                  before.seismicevent[e].datetime_value \in {WindowBegin, WindowEnd}
                      => e \notin Range(events["c1"])
           /\ \A e \in Range(before.events["c2"]) :
                  before.seismicevent[e].datetime_value \in {WindowBegin, WindowEnd}
                      => \E c \in NewObjects(events["c1"], before.seismicevent) :
                             /\ seismicevent[c].datetime_value = before.seismicevent[e].datetime_value
                             /\ seismicevent[c].magnitude_value = before.seismicevent[e].magnitude_value
    /\ (Called("Hydraulics.merge") /\ last.other = "h2" /\ before.samples["h2"] # <<>>) =>
           /\ \A s \in Range(before.samples["h1"]) :
                  before.hydraulicsample[s].datetime_value
                          \in {SetMin(OtherTimesBefore), SetMax(OtherTimesBefore)}
                      => s \notin Range(samples["h1"])
           /\ \A s \in Range(before.samples["h2"]) :
                  before.hydraulicsample[s].datetime_value
                          \in {SetMin(OtherTimesBefore), SetMax(OtherTimesBefore)}
                      => \E c \in NewObjects(samples["h1"], before.hydraulicsample) :
                             /\ hydraulicsample[c].datetime_value = before.hydraulicsample[s].datetime_value
                             /\ hydraulicsample[c].topflow_value = before.hydraulicsample[s].topflow_value

\* C5 witness: an explicit window [starttime, endtime]; self held an event at
\* starttime and one at endtime, cat holds an event at each, and self ends
\* with exactly the two copies.
C5_Witness ==
    /\ Called("SeismicCatalog.merge") /\ last.raised = "none" /\ calls = 1
    /\ last.starttime # None /\ last.endtime # None
    /\ \E e \in Range(before.events["c1"]) : before.seismicevent[e].datetime_value = last.starttime
    /\ \E e \in Range(before.events["c1"]) : before.seismicevent[e].datetime_value = last.endtime
    /\ \E e \in Range(before.events["c2"]) : before.seismicevent[e].datetime_value = last.starttime
    /\ \E e \in Range(before.events["c2"]) : before.seismicevent[e].datetime_value = last.endtime
    /\ TimesOf(events["c1"], seismicevent) \in {<<last.starttime, last.endtime>>, <<last.endtime, last.starttime>>}
    /\ NewObjects(events["c1"], before.seismicevent) = Range(events["c1"])

\* C6: merging the same series into self twice in succession with the same
\* explicit [starttime, endtime] leaves self with the same samples (same
\* timestamps, same count, same order) as merging it once.
C6_MergeTwiceIsMergeOnce ==
    (calls >= 2 /\ last.op = "SeismicCatalog.merge"
         /\ last.starttime # None /\ last.endtime # None) =>
        /\ TimesOf(events["c1"], seismicevent) = TimesOf(before.events["c1"], before.seismicevent)
        /\ \A i \in 1..Len(events["c1"]) :
               seismicevent[events["c1"][i]].magnitude_value
                   = before.seismicevent[before.events["c1"][i]].magnitude_value

\* C6 witness: the second of two merges with an explicit window, into a
\* catalog that holds an event it kept and copies the first merge inserted,
\* which the second merge replaced by new copies.
C6_Witness ==
    /\ calls = 2 /\ last.op = "SeismicCatalog.merge" /\ last.raised = "none"
    /\ last.starttime # None /\ last.endtime # None
    /\ \E e \in Range(events["c1"]) : e \in Range(before.events["c1"])
    /\ \E e \in Range(before.events["c1"]) : e \notin Range(events["c1"])
    /\ NewObjects(events["c1"], before.seismicevent) # {}

\* C7: SeismicCatalog.merge with an explicit window: events of self outside
\* [starttime, endtime] stay in self as the same objects in the same order;
\* events of cat outside it are not added; events of self inside it are
\* removed even when cat has no event inside it; and cat (its event list,
\* every event's attributes and parent) is not modified.
C7_MergeFrame ==
    (Called("SeismicCatalog.merge") /\ before.events["c2"] # <<>> /\ last.raised = "none"
         /\ last.starttime # None /\ last.endtime # None) =>
        LET old == before.seismicevent
            outside(e) == old[e].datetime_value < last.starttime
                              \/ old[e].datetime_value > last.endtime
            wasthere(e) == e \in DOMAIN old
        IN  /\ SelectSeq(events["c1"], wasthere) = SelectSeq(before.events["c1"], outside)
            /\ \A e \in Range(events["c1"]) : wasthere(e) => seismicevent[e] = old[e]
            /\ \A c \in NewObjects(events["c1"], old) :
                   /\ seismicevent[c].datetime_value >= last.starttime
                   /\ seismicevent[c].datetime_value <= last.endtime
            /\ Cardinality(NewObjects(events["c1"], old))
                   = Cardinality({e \in Range(before.events["c2"]) : ~outside(e)})
            /\ events["c2"] = before.events["c2"]
            /\ \A e \in Range(before.events["c2"]) : seismicevent[e] = old[e]

\* C7 witness: the window holds no event of cat; self lost the events it held
\* inside the window, kept one outside it and received nothing.
C7_Witness ==
    /\ Called("SeismicCatalog.merge") /\ last.raised = "none" /\ calls = 1
    /\ last.starttime # None /\ last.endtime # None
    /\ before.events["c2"] # <<>>
    /\ \A e \in Range(before.events["c2"]) :
           before.seismicevent[e].datetime_value > last.endtime
    /\ Len(events["c1"]) = 1 /\ Len(before.events["c1"]) = 2
    /\ NewObjects(events["c1"], before.seismicevent) = {}

\* Both series of the last call were sorted ascending by timestamp.
CatalogsSortedBefore ==
    /\ Sorted(TimesOf(before.events["c1"], before.seismicevent))
    /\ Sorted(TimesOf(before.events["c2"], before.seismicevent))

HydraulicsSortedBefore ==
    /\ Sorted(TimesOf(before.samples["h1"], before.hydraulicsample))
    /\ Sorted(TimesOf(before.samples["h2"], before.hydraulicsample))

\* C8 as stated: after every merge of a sorted series into a sorted series,
\* the samples of self are sorted ascending by timestamp.
C8_SortedAfterEveryMerge ==
    /\ (Called("SeismicCatalog.merge") /\ CatalogsSortedBefore)
           => Sorted(TimesOf(events["c1"], seismicevent))
    /\ (Called("Hydraulics.merge") /\ HydraulicsSortedBefore)
           => Sorted(TimesOf(samples["h1"], hydraulicsample))

\* C8 amended: after a merge of a sorted series into a sorted series, the
\* samples of self are sorted ascending by timestamp exactly when self held no
\* sample later than the end of the merge window or the merge inserted no
\* sample; otherwise the later samples self kept precede the inserted ones.
C8_SortedIffNothingKeptAfterWindow ==
    /\ (Called("SeismicCatalog.merge") /\ CatalogsSortedBefore) =>
           (Sorted(TimesOf(events["c1"], seismicevent)) <=>
               \/ before.events["c2"] = <<>>
               \/ last.raised # "none"
               \/ \A e \in Range(before.events["c1"]) :
                      before.seismicevent[e].datetime_value <= WindowEnd
               \/ \A e \in Range(before.events["c2"]) :
                      \/ before.seismicevent[e].datetime_value < WindowBegin
                      \/ before.seismicevent[e].datetime_value > WindowEnd)
    /\ (Called("Hydraulics.merge") /\ HydraulicsSortedBefore) =>
           (Sorted(TimesOf(samples["h1"], hydraulicsample)) <=>
               \/ last.other = NoneObj
               \/ before.samples["h2"] = <<>>
               \/ \A s \in Range(before.samples["h1"]) :
                      before.hydraulicsample[s].datetime_value <= SetMax(OtherTimesBefore))

\* C8 witness: a merge of sorted series that kept a sample of self, inserted
\* a copy and left self sorted.
C8_Witness ==
    /\ Called("SeismicCatalog.merge") /\ CatalogsSortedBefore /\ calls = 1
    /\ last.raised = "none"
    /\ \E e \in Range(events["c1"]) : e \in Range(before.events["c1"])
    /\ NewObjects(events["c1"], before.seismicevent) # {}
    /\ Sorted(TimesOf(events["c1"], seismicevent))

\* C9: reduce(None) removes every sample of the series; reduce(pred) with a
\* callable pred removes exactly the samples for which pred is true and keeps
\* the others in their previous order; for SeismicCatalog and Hydraulics.
C9_ReduceRemovesMatching ==
    /\ Called("SeismicCatalog.reduce") =>
           LET keep(e) == ~Call(last.filter_cond, before.seismicevent[e])
           IN  /\ last.filter_cond = NoneArg => last.raised = "none" /\ events["c1"] = <<>>
               /\ callable(last.filter_cond) =>
                      /\ last.raised = "none"
                      /\ events["c1"] = SelectSeq(before.events["c1"], keep)
                      /\ \A e \in Range(events["c1"]) : seismicevent[e] = before.seismicevent[e]
    /\ Called("Hydraulics.reduce") =>
           LET keep(s) == ~Call(last.filter_cond, before.hydraulicsample[s])
           IN  /\ last.filter_cond = NoneArg => last.raised = "none" /\ samples["h1"] = <<>>
               /\ callable(last.filter_cond) =>
                      /\ last.raised = "none"
                      /\ samples["h1"] = SelectSeq(before.samples["h1"], keep)
                      /\ \A s \in Range(samples["h1"]) : hydraulicsample[s] = before.hydraulicsample[s]

\* C9 witness: reduce with a callable that removed the first of two events
\* and kept the second.
C9_Witness ==
    /\ Called("SeismicCatalog.reduce") /\ callable(last.filter_cond) /\ calls = 1
    /\ Len(before.events["c1"]) = 2
    /\ events["c1"] = <<before.events["c1"][2]>>

\* C10: reduce with an argument that is neither None nor callable raises an
\* error and leaves the series unchanged, whether the series is empty or not.
C10_ReduceRejectsNotCallable ==
    /\ (Called("SeismicCatalog.reduce") /\ last.filter_cond = NotCallable) =>
           last.raised = "TypeError" /\ events = before.events
    /\ (Called("Hydraulics.reduce") /\ last.filter_cond = NotCallable) =>
           last.raised = "TypeError" /\ samples = before.samples

(***************************************************************************)
(* snapshot, copy and the comparison operators.                            *)
(***************************************************************************)
\* Mutant of ListOfCopies: the filter is not applied, every sample is copied.
RECURSIVE ListOfCopies_IgnoresFilter(_, _, _, _)
ListOfCopies_IgnoresFilter(src, heap, mapper, filter_cond) ==
    IF src = <<>> THEN [heap |-> heap, new |-> <<>>]
    ELSE LET i == NewIdentity(heap)
             r == ListOfCopies_IgnoresFilter(Tail(src),
                      Store(heap, i, clone(heap[Head(src)], mapper, FALSE)), mapper, filter_cond)
         IN  [heap |-> r.heap, new |-> <<i>> \o r.new]

\* [s.copy() for s in src if filter_cond(s)]: the heap with the copies in it,
\* and the list of the copies.
RECURSIVE ListOfCopies(_, _, _, _)
ListOfCopies(src, heap, mapper, filter_cond) ==
    IF src = <<>> THEN [heap |-> heap, new |-> <<>>]
    ELSE IF Call(filter_cond, heap[Head(src)])
         THEN LET i == NewIdentity(heap)
                  r == ListOfCopies(Tail(src),
                           Store(heap, i, clone(heap[Head(src)], mapper, FALSE)), mapper, filter_cond)
              IN  [heap |-> r.heap, new |-> <<i>> \o r.new]
         ELSE ListOfCopies(Tail(src), heap, mapper, filter_cond)

\* type(self)(): a new series snap without samples.
NewSeries(lists, snap) == [c \in DOMAIN lists \cup {snap} |-> IF c = snap THEN <<>> ELSE lists[c]]

\* SeismicCatalog.snapshot: the outcome as [lists, heap, raised, snap].
SeismicCatalog_snapshot(lists, heap, self, filter_cond) ==
    IF ~(callable(filter_cond) \/ filter_cond = NoneArg)
    THEN [lists |-> lists, heap |-> heap, raised |-> "AssertionError", snap |-> TheNone]
    ELSE LET cond == IF filter_cond = NoneArg THEN Always ELSE filter_cond
             r == ListOfCopies(lists[self], heap, SeismicEventMapper, cond)
         IN  SetCollection(NewSeries(lists, "snap"), r.heap, "snap", "seismiccatalog", r.new)
             @@ [raised |-> "none", snap |-> ACatalog("snap")]

\* Hydraulics.snapshot: the outcome as [lists, heap, raised, snap].
Hydraulics_snapshot(lists, heap, self, filter_cond) ==
    IF ~(callable(filter_cond) \/ filter_cond = NoneArg)
    THEN [lists |-> lists, heap |-> heap, raised |-> "AssertionError", snap |-> TheNone]
    ELSE LET cond == IF filter_cond = NoneArg THEN Always ELSE filter_cond
             r == ListOfCopies(lists[self], heap, HydraulicSampleMapper, cond)
         IN  SetCollection(NewSeries(lists, "snap"), r.heap, "snap", "hydraulics", r.new)
             @@ [raised |-> "none", snap |-> AHydraulics("snap")]

\* The attributes __eq__ compares: all but primary key, relationships and
\* foreign keys.
ComparedAttributes(obj, mapper) == DOMAIN obj \ (mapper.pk \cup mapper.rel \cup mapper.fk)

\* Mutant of ColumnsEqual: the primary key is compared as well.
ColumnsEqual_WithPrimaryKey(a, b, mapper) ==
    \A attr \in ComparedAttributes(a, mapper) \cup mapper.pk : a[attr] = b[attr]

\* all(getattr(self, attr) == getattr(other, attr) for attr in ...)
ColumnsEqual(a, b, mapper) ==
    \A attr \in ComparedAttributes(a, mapper) : a[attr] = b[attr]

\* SeismicEvent.__eq__: the outcome as [value, raised].
SeismicEvent_eq(heap, self, other) ==
    IF isinstance(other, "SeismicEvent")
    THEN [value |-> TheBool(ColumnsEqual(heap[self.id], heap[other.id], SeismicEventMapper)),
          raised |-> "none"]
    ELSE [value |-> TheNone, raised |-> "ValueError"]

\* SeismicEvent.__ne__: not self.__eq__(other)
SeismicEvent_ne(heap, self, other) ==
    LET r == SeismicEvent_eq(heap, self, other)
    IN  IF r.raised # "none" THEN r
        ELSE [value |-> TheBool(r.value # TheBool(TRUE)), raised |-> "none"]

\* SeismicEvent.__lt__: the tuples (datetime_value, magnitude_value) compared.
SeismicEvent_lt(heap, self, other) ==
    IF isinstance(other, "SeismicEvent")
    THEN LET a == heap[self.id]
             b == heap[other.id]
         IN  [value |-> TheBool(\/ a.datetime_value < b.datetime_value
                                \/ /\ a.datetime_value = b.datetime_value
                                   /\ a.magnitude_value < b.magnitude_value),
              raised |-> "none"]
    ELSE [value |-> TheNone, raised |-> "ValueError"]

\* HydraulicSample.__eq__: the outcome as [value, raised].
HydraulicSample_eq(heap, self, other) ==
    IF isinstance(other, "HydraulicSample")
    THEN [value |-> TheBool(ColumnsEqual(heap[self.id], heap[other.id], HydraulicSampleMapper)),
          raised |-> "none"]
    ELSE [value |-> TheNone, raised |-> "ValueError"]

\* HydraulicSample.__ne__: not self.__eq__(other)
HydraulicSample_ne(heap, self, other) ==
    LET r == HydraulicSample_eq(heap, self, other)
    IN  IF r.raised # "none" THEN r
        ELSE [value |-> TheBool(r.value # TheBool(TRUE)), raised |-> "none"]

\* Hydraulics.__eq__: same length, and no pair of zip(...) with i != j.
Hydraulics_eq(lists, heap, self, other) ==
    IF isinstance(other, "Hydraulics")
    THEN LET a == lists[self.ref]
             b == lists[other.ref]
         IN  IF Len(a) # Len(b) THEN [value |-> TheBool(FALSE), raised |-> "none"]
             ELSE [value |-> TheBool(\A i \in 1..Len(a) :
                              HydraulicSample_ne(heap, ASample(a[i]), ASample(b[i])).value = TheBool(FALSE)),
                   raised |-> "none"]
    ELSE [value |-> TheNone, raised |-> "ValueError"]

\* Hydraulics.__ne__: not self.__eq__(other)
Hydraulics_ne(lists, heap, self, other) ==
    LET r == Hydraulics_eq(lists, heap, self, other)
    IN  IF r.raised # "none" THEN r
        ELSE [value |-> TheBool(r.value # TheBool(TRUE)), raised |-> "none"]

\* SeismicCatalog defines no __eq__: == is object identity, whatever other is.
SeismicCatalog_eq(lists, heap, self, other) ==
    [value |-> TheBool(other = self), raised |-> "none"]

\* SeismicCatalog defines no __ne__: != is the negation of ==.
SeismicCatalog_ne(lists, heap, self, other) ==
    [value |-> TheBool(other # self), raised |-> "none"]

(***************************************************************************)
(* ReservoirSeismicityPrediction, the result of a seismicity model run.    *)
(***************************************************************************)
ReservoirSeismicityPredictionMapper ==
    [pk |-> {"id"}, fk |-> {"modelrun_id", "parent_id"}, rel |-> {"modelrun", "parent"}]

NewReservoirSeismicityPrediction(pk, x_min) ==
    [id |-> pk, x_min |-> x_min, modelrun_id |-> None, parent_id |-> None,
     modelrun |-> NoneObj, parent |-> NoneObj]

\* Three predictions: the first two differ in their primary key only.
Predictions ==
    <<NewReservoirSeismicityPrediction(1, 1), NewReservoirSeismicityPrediction(2, 1),
      NewReservoirSeismicityPrediction(3, 2)>>

APrediction(p) == Operand("ReservoirSeismicityPrediction", NoneObj, p, "object")

\* ReservoirSeismicityPrediction.__eq__: without a raise after the if, the
\* method returns None for an object of another class.
ReservoirSeismicityPrediction_eq(heap, self, other) ==
    IF isinstance(other, "ReservoirSeismicityPrediction")
    THEN [value |-> TheBool(ColumnsEqual(heap[self.id], heap[other.id],
                                         ReservoirSeismicityPredictionMapper)),
          raised |-> "none"]
    ELSE [value |-> TheNone, raised |-> "none"]

\* No __ne__ is defined: Python negates the truth value of __eq__'s result.
ReservoirSeismicityPrediction_ne(heap, self, other) ==
    LET r == ReservoirSeismicityPrediction_eq(heap, self, other)
    IN  [value |-> TheBool(r.value # TheBool(TRUE)), raised |-> "none"]

\* ReservoirSeismicityPrediction.__lt__: self.samples < self.samples, a list
\* compared with itself.
ReservoirSeismicityPrediction_lt(heap, self, other) ==
    IF isinstance(other, "ReservoirSeismicityPrediction")
    THEN [value |-> TheBool(FALSE), raised |-> "none"]
    ELSE [value |-> TheNone, raised |-> "ValueError"]

(***************************************************************************)
(* merge with an argument of any class.                                    *)
(***************************************************************************)
\* SeismicCatalog.merge from its first statement: assert isinstance(cat, type(self))
SeismicCatalog_merge_asserting(lists, heap, self, cat, starttime, endtime) ==
    IF ~isinstance(cat, "SeismicCatalog")
    THEN [lists |-> lists, heap |-> heap, raised |-> "AssertionError"]
    ELSE SeismicCatalog_merge(lists, heap, self, cat.ref, starttime, endtime)

\* Hydraulics.merge from its first statement:
\* assert isinstance(other, type(self)) or other is None
Hydraulics_merge_asserting(lists, heap, self, other) ==
    IF ~(isinstance(other, "Hydraulics") \/ other = TheNone)
    THEN [lists |-> lists, heap |-> heap, raised |-> "AssertionError"]
    ELSE Hydraulics_merge(lists, heap, self, IF other = TheNone THEN NoneObj ELSE other.ref)

(***************************************************************************)
(* Calls of snapshot, copy, the comparison operators and merge on c1, h1   *)
(* and their samples.  A behaviour makes one call, and may compare what a  *)
(* snapshot or a copy returned with its origin.                            *)
(***************************************************************************)
OpRecord(op, self, other, with_foreignkeys, filter_cond, raised) ==
    [op |-> op, self |-> self, other |-> other, with_foreignkeys |-> with_foreignkeys,
     filter_cond |-> filter_cond, raised |-> raised]

ComparisonOps == {"==", "!=", "<"}

\* returned = c1.snapshot(filter_cond)
SeismicCatalogSnapshot(filter_cond) ==
    LET r == SeismicCatalog_snapshot(events, seismicevent, "c1", filter_cond)
    IN  /\ calls = 0
        /\ events' = r.lists
        /\ seismicevent' = r.heap
        /\ returned' = r.snap
        /\ last' = OpRecord("SeismicCatalog.snapshot", ACatalog("c1"), TheNone, FALSE,
                            filter_cond, r.raised)
        /\ calls' = calls + 1
        /\ before' = StateBefore
        /\ UNCHANGED <<samples, hydraulicsample>>
        /\ UNCHANGED forecastvars
        /\ UNCHANGED othervars

\* returned = h1.snapshot(filter_cond)
HydraulicsSnapshot(filter_cond) ==
    LET r == Hydraulics_snapshot(samples, hydraulicsample, "h1", filter_cond)
    IN  /\ calls = 0
        /\ samples' = r.lists
        /\ hydraulicsample' = r.heap
        /\ returned' = r.snap
        /\ last' = OpRecord("Hydraulics.snapshot", AHydraulics("h1"), TheNone, FALSE,
                            filter_cond, r.raised)
        /\ calls' = calls + 1
        /\ before' = StateBefore
        /\ UNCHANGED <<events, seismicevent>>
        /\ UNCHANGED forecastvars
        /\ UNCHANGED othervars

\* returned = e.copy(with_foreignkeys) for an event e of c1
SeismicEventCopy(e, with_foreignkeys) ==
    LET i == NewIdentity(seismicevent)
    IN  /\ calls = 0
        /\ e \in Range(events["c1"])
        /\ seismicevent' = Store(seismicevent, i,
                                 clone(seismicevent[e], SeismicEventMapper, with_foreignkeys))
        /\ returned' = AnEvent(i)
        /\ last' = OpRecord("SeismicEvent.copy", AnEvent(e), TheNone, with_foreignkeys,
                            NoneArg, "none")
        /\ calls' = calls + 1
        /\ before' = StateBefore
        /\ UNCHANGED <<events, samples, hydraulicsample>>
        /\ UNCHANGED forecastvars
        /\ UNCHANGED othervars

\* returned = s.copy(with_foreignkeys) for a sample s of h1
HydraulicSampleCopy(s, with_foreignkeys) ==
    LET i == NewIdentity(hydraulicsample)
    IN  /\ calls = 0
        /\ s \in Range(samples["h1"])
        /\ hydraulicsample' = Store(hydraulicsample, i,
                                    clone(hydraulicsample[s], HydraulicSampleMapper, with_foreignkeys))
        /\ returned' = ASample(i)
        /\ last' = OpRecord("HydraulicSample.copy", ASample(s), TheNone, with_foreignkeys,
                            NoneArg, "none")
        /\ calls' = calls + 1
        /\ before' = StateBefore
        /\ UNCHANGED <<events, seismicevent, samples>>
        /\ UNCHANGED forecastvars
        /\ UNCHANGED othervars

\* What may be compared: a sample of c1 (h1) with anything while nothing was
\* called, or what copy (snapshot) just returned with its origin.
MayCompare(self, other, first, producer) ==
    \/ calls = 0 /\ self \in first
    \/ /\ calls = 1 /\ last.op = producer
       /\ \/ self = last.self /\ other = returned
          \/ self = returned /\ other = last.self

\* returned = (self op other) for SeismicEvent self
SeismicEventCompare(op, self, other) ==
    LET r == CASE op = "==" -> SeismicEvent_eq(seismicevent, self, other)
               [] op = "!=" -> SeismicEvent_ne(seismicevent, self, other)
               [] op = "<" -> SeismicEvent_lt(seismicevent, self, other)
    IN  /\ MayCompare(self, other, {AnEvent(e) : e \in Range(events["c1"])}, "SeismicEvent.copy")
        /\ returned' = r.value
        /\ last' = OpRecord("SeismicEvent." \o op, self, other, FALSE, NoneArg, r.raised)
        /\ calls' = calls + 1
        /\ before' = StateBefore
        /\ UNCHANGED seriesvars
        /\ UNCHANGED forecastvars
        /\ UNCHANGED othervars

\* returned = (self op other) for HydraulicSample self; the class defines no
\* __lt__
HydraulicSampleCompare(op, self, other) ==
    LET r == CASE op = "==" -> HydraulicSample_eq(hydraulicsample, self, other)
               [] op = "!=" -> HydraulicSample_ne(hydraulicsample, self, other)
    IN  /\ MayCompare(self, other, {ASample(s) : s \in Range(samples["h1"])}, "HydraulicSample.copy")
        /\ returned' = r.value
        /\ last' = OpRecord("HydraulicSample." \o op, self, other, FALSE, NoneArg, r.raised)
        /\ calls' = calls + 1
        /\ before' = StateBefore
        /\ UNCHANGED seriesvars
        /\ UNCHANGED forecastvars
        /\ UNCHANGED othervars

\* returned = (c1 op other)
SeismicCatalogCompare(op, other) ==
    LET self == ACatalog("c1")
        r == CASE op = "==" -> SeismicCatalog_eq(events, seismicevent, self, other)
               [] op = "!=" -> SeismicCatalog_ne(events, seismicevent, self, other)
    IN  /\ MayCompare(self, other, {self}, "SeismicCatalog.snapshot")
        /\ returned' = r.value
        /\ last' = OpRecord("SeismicCatalog." \o op, self, other, FALSE, NoneArg, r.raised)
        /\ calls' = calls + 1
        /\ before' = StateBefore
        /\ UNCHANGED seriesvars
        /\ UNCHANGED forecastvars
        /\ UNCHANGED othervars

\* returned = (h1 op other)
HydraulicsCompare(op, other) ==
    LET self == AHydraulics("h1")
        r == CASE op = "==" -> Hydraulics_eq(samples, hydraulicsample, self, other)
               [] op = "!=" -> Hydraulics_ne(samples, hydraulicsample, self, other)
    IN  /\ MayCompare(self, other, {self}, "Hydraulics.snapshot")
        /\ returned' = r.value
        /\ last' = OpRecord("Hydraulics." \o op, self, other, FALSE, NoneArg, r.raised)
        /\ calls' = calls + 1
        /\ before' = StateBefore
        /\ UNCHANGED seriesvars
        /\ UNCHANGED forecastvars
        /\ UNCHANGED othervars

\* returned = (self op other) for ReservoirSeismicityPrediction self
ReservoirSeismicityPredictionCompare(op, self, other) ==
    LET r == CASE op = "==" -> ReservoirSeismicityPrediction_eq(Predictions, self, other)
               [] op = "!=" -> ReservoirSeismicityPrediction_ne(Predictions, self, other)
               [] op = "<" -> ReservoirSeismicityPrediction_lt(Predictions, self, other)
    IN  /\ calls = 0
        /\ returned' = r.value
        /\ last' = OpRecord("ReservoirSeismicityPrediction." \o op, self, other, FALSE,
                            NoneArg, r.raised)
        /\ calls' = calls + 1
        /\ before' = StateBefore
        /\ UNCHANGED seriesvars
        /\ UNCHANGED forecastvars
        /\ UNCHANGED othervars

\* c1.merge(cat) for a cat of any class
SeismicCatalogMergeAny(cat) ==
    LET r == SeismicCatalog_merge_asserting(events, seismicevent, "c1", cat, None, None)
    IN  /\ calls = 0
        /\ events' = r.lists
        /\ seismicevent' = Collect(r.heap, r.lists)
        /\ returned' = TheNone
        /\ last' = OpRecord("SeismicCatalog.merge", ACatalog("c1"), cat, FALSE, NoneArg, r.raised)
        /\ calls' = calls + 1
        /\ before' = StateBefore
        /\ UNCHANGED <<samples, hydraulicsample>>
        /\ UNCHANGED forecastvars
        /\ UNCHANGED othervars

\* h1.merge(other) for an other of any class
HydraulicsMergeAny(other) ==
    LET r == Hydraulics_merge_asserting(samples, hydraulicsample, "h1", other)
    IN  /\ calls = 0
        /\ samples' = r.lists
        /\ hydraulicsample' = Collect(r.heap, r.lists)
        /\ returned' = TheNone
        /\ last' = OpRecord("Hydraulics.merge", AHydraulics("h1"), other, FALSE, NoneArg, r.raised)
        /\ calls' = calls + 1
        /\ before' = StateBefore
        /\ UNCHANGED <<events, seismicevent>>
        /\ UNCHANGED forecastvars
        /\ UNCHANGED othervars

\* The objects a call may be given.
EventOperands == {AnEvent(e) : e \in DOMAIN seismicevent}

SampleOperands == {ASample(s) : s \in DOMAIN hydraulicsample}

CatalogOperands == {ACatalog(c) : c \in DOMAIN events}

HydraulicsOperands == {AHydraulics(h) : h \in DOMAIN samples}

PredictionOperands == {APrediction(p) : p \in DOMAIN Predictions}

NextSnapshot ==
    \/ \E filter_cond \in FilterConds : SeismicCatalogSnapshot(filter_cond)
    \/ \E filter_cond \in FilterConds : HydraulicsSnapshot(filter_cond)
    \/ \E e \in DOMAIN seismicevent, with_foreignkeys \in BOOLEAN :
           SeismicEventCopy(e, with_foreignkeys)
    \/ \E s \in DOMAIN hydraulicsample, with_foreignkeys \in BOOLEAN :
           HydraulicSampleCopy(s, with_foreignkeys)
    \/ \E op \in ComparisonOps, self \in EventOperands,
          other \in EventOperands \cup {AnInt, ASample(1)} :
           SeismicEventCompare(op, self, other)
    \/ \E op \in {"==", "!="}, self \in SampleOperands,
          other \in SampleOperands \cup {AnInt, AnEvent(1)} :
           HydraulicSampleCompare(op, self, other)
    \/ \E op \in {"==", "!="},
          other \in CatalogOperands \cup {TheNone, AnInt, AHydraulics("h1")} :
           SeismicCatalogCompare(op, other)
    \/ \E op \in {"==", "!="},
          other \in HydraulicsOperands \cup {TheNone, AnInt, ACatalog("c1")} :
           HydraulicsCompare(op, other)
    \/ \E op \in ComparisonOps, self \in PredictionOperands,
          other \in PredictionOperands \cup {AnInt} :
           ReservoirSeismicityPredictionCompare(op, self, other)
    \/ \E cat \in CatalogOperands \cup {TheNone, AnInt, AHydraulics("h1")} :
           SeismicCatalogMergeAny(cat)
    \/ \E other \in HydraulicsOperands \cup {TheNone, AnInt, ACatalog("c1")} :
           HydraulicsMergeAny(other)

\* The series are built as in Init, from timestamps at the first and the last
\* instant.
SnapshotTimeLists == UNION {[1..n -> {1, MaxTime}] : n \in 0..MaxLen}

InitSnapshot ==
    \E ts1 \in SnapshotTimeLists, ts2 \in SnapshotTimeLists :
        /\ events = BuildCatalogs(ts1, ts2)
        /\ seismicevent = BuildSeismicEvents(ts1, ts2)
        /\ samples = BuildHydraulics(ts1, ts2)
        /\ hydraulicsample = BuildHydraulicSamples(ts1, ts2)
        /\ calls = 0
        /\ last = NoCall
        /\ before = [events |-> BuildCatalogs(ts1, ts2),
                     seismicevent |-> BuildSeismicEvents(ts1, ts2),
                     samples |-> BuildHydraulics(ts1, ts2),
                     hydraulicsample |-> BuildHydraulicSamples(ts1, ts2)]
        /\ returned = TheNone
        /\ NoForecast
        /\ NoOthers

SpecSnapshot == InitSnapshot /\ [][NextSnapshot]_vars

\* C11: snapshot(pred) returns a new series whose samples are copies of exactly
\* the samples of the original that satisfy pred (all of them when pred is
\* None), in the original order and element-wise equal to them; no sample
\* object is shared between snapshot and original, the copies carry no primary
\* key and no owner foreign key, and the original series is unchanged.
C11_SnapshotCopiesMatching ==
    /\ (Called("SeismicCatalog.snapshot") /\ last.filter_cond # NotCallable) =>
           LET old == before.seismicevent
               pred(e) == last.filter_cond = NoneArg \/ Call(last.filter_cond, old[e])
               matching == SelectSeq(before.events["c1"], pred)
               snap == events[returned.ref]
           IN  /\ last.raised = "none"
               /\ returned.type = "SeismicCatalog" /\ returned.ref \notin DOMAIN before.events
               /\ Len(snap) = Len(matching)
               /\ \A i \in 1..Len(snap) :
                      /\ snap[i] \notin DOMAIN old
                      /\ \A j \in 1..Len(snap) : j # i => snap[j] # snap[i]
                      /\ seismicevent[snap[i]].datetime_value = old[matching[i]].datetime_value
                      /\ seismicevent[snap[i]].magnitude_value = old[matching[i]].magnitude_value
                      /\ SeismicEvent_eq(seismicevent, AnEvent(snap[i]), AnEvent(matching[i])).value
                             = TheBool(TRUE)
                      /\ seismicevent[snap[i]].id = None
                      /\ seismicevent[snap[i]].seismiccatalog_id = None
               /\ Range(snap) \cap Range(events["c1"]) = {}
               /\ \A c \in DOMAIN before.events : events[c] = before.events[c]
               /\ \A e \in DOMAIN old : seismicevent[e] = old[e]
    /\ (Called("Hydraulics.snapshot") /\ last.filter_cond # NotCallable) =>
           LET old == before.hydraulicsample
               pred(s) == last.filter_cond = NoneArg \/ Call(last.filter_cond, old[s])
               matching == SelectSeq(before.samples["h1"], pred)
               snap == samples[returned.ref]
           IN  /\ last.raised = "none"
               /\ returned.type = "Hydraulics" /\ returned.ref \notin DOMAIN before.samples
               /\ Len(snap) = Len(matching)
               /\ \A i \in 1..Len(snap) :
                      /\ snap[i] \notin DOMAIN old
                      /\ \A j \in 1..Len(snap) : j # i => snap[j] # snap[i]
                      /\ hydraulicsample[snap[i]].datetime_value = old[matching[i]].datetime_value
                      /\ hydraulicsample[snap[i]].topflow_value = old[matching[i]].topflow_value
                      /\ HydraulicSample_eq(hydraulicsample, ASample(snap[i]), ASample(matching[i])).value
                             = TheBool(TRUE)
                      /\ hydraulicsample[snap[i]].id = None
                      /\ hydraulicsample[snap[i]].hydraulics_id = None
               /\ Range(snap) \cap Range(samples["h1"]) = {}
               /\ \A h \in DOMAIN before.samples : samples[h] = before.samples[h]
               /\ \A s \in DOMAIN old : hydraulicsample[s] = old[s]

\* C11 witness: a snapshot with a predicate that holds for the second of two
\* events and not for the first.
C11_Witness ==
    /\ Called("SeismicCatalog.snapshot") /\ callable(last.filter_cond)
    /\ Len(before.events["c1"]) = 2
    /\ ~Call(last.filter_cond, before.seismicevent[before.events["c1"][1]])
    /\ Call(last.filter_cond, before.seismicevent[before.events["c1"][2]])
    /\ Len(events[returned.ref]) = 1

\* C12: clone(obj, with_foreignkeys=False) returns a new object of the same
\* kind that holds every simple column value of obj except primary-key and
\* foreign-key columns, and no relationship, so the clone has no owner and
\* appears in no parent's collection; clone(obj, with_foreignkeys=True)
\* additionally copies the foreign-key columns but still has no primary key
\* and no relationship; obj itself is unchanged.
C12_CloneOmitsKeysAndRelationships ==
    /\ Called("SeismicEvent.copy") =>
           LET obj == before.seismicevent[last.self.id]
               new == seismicevent[returned.id]
           IN  /\ last.raised = "none"
               /\ returned.type = last.self.type /\ returned.id \notin DOMAIN before.seismicevent
               /\ new.datetime_value = obj.datetime_value
               /\ new.magnitude_value = obj.magnitude_value
               /\ new.id = None
               /\ new.seismiccatalog = NoneObj
               /\ \A c \in DOMAIN events : returned.id \notin Range(events[c])
               /\ new.seismiccatalog_id
                      = (IF last.with_foreignkeys THEN obj.seismiccatalog_id ELSE None)
               /\ events = before.events
               /\ \A e \in DOMAIN before.seismicevent : seismicevent[e] = before.seismicevent[e]
    /\ Called("HydraulicSample.copy") =>
           LET obj == before.hydraulicsample[last.self.id]
               new == hydraulicsample[returned.id]
           IN  /\ last.raised = "none"
               /\ returned.type = last.self.type /\ returned.id \notin DOMAIN before.hydraulicsample
               /\ new.datetime_value = obj.datetime_value
               /\ new.topflow_value = obj.topflow_value
               /\ new.id = None
               /\ new.hydraulics = NoneObj
               /\ \A h \in DOMAIN samples : returned.id \notin Range(samples[h])
               /\ new.hydraulics_id
                      = (IF last.with_foreignkeys THEN obj.hydraulics_id ELSE None)
               /\ samples = before.samples
               /\ \A s \in DOMAIN before.hydraulicsample :
                      hydraulicsample[s] = before.hydraulicsample[s]

\* C12 witness: a persisted event of c1 cloned with its foreign key: the clone
\* has the catalog's key, no primary key and no catalog.
C12_Witness ==
    /\ Called("SeismicEvent.copy") /\ last.with_foreignkeys
    /\ before.seismicevent[last.self.id].id # None
    /\ before.seismicevent[last.self.id].seismiccatalog = "c1"
    /\ seismicevent[returned.id].seismiccatalog_id = SeriesPk("c1")
    /\ seismicevent[returned.id].id = None
    /\ seismicevent[returned.id].seismiccatalog = NoneObj

\* C13: two samples (SeismicEvent, HydraulicSample) are equal exactly when
\* all their column values other than primary key, foreign keys and
\* relationships are equal; equality does not depend on id or owner, and
\* s.copy() == s holds for every sample s, with or without foreign keys.
C13_SampleEqualityIsStructural ==
    /\ (Called("SeismicEvent.==") /\ isinstance(last.other, "SeismicEvent")) =>
           LET a == seismicevent[last.self.id]
               b == seismicevent[last.other.id]
           IN  /\ last.raised = "none"
               /\ returned = TheBool(/\ a.datetime_value = b.datetime_value
                                     /\ a.magnitude_value = b.magnitude_value)
               /\ calls = 2 => returned = TheBool(TRUE)
    /\ (Called("HydraulicSample.==") /\ isinstance(last.other, "HydraulicSample")) =>
           LET a == hydraulicsample[last.self.id]
               b == hydraulicsample[last.other.id]
           IN  /\ last.raised = "none"
               /\ returned = TheBool(/\ a.datetime_value = b.datetime_value
                                     /\ a.topflow_value = b.topflow_value)
               /\ calls = 2 => returned = TheBool(TRUE)

\* C13 witness: e.copy(with_foreignkeys=True) == e was evaluated for a
\* persisted event e; the copy has e's foreign key but neither its primary
\* key nor its catalog.
C13_Witness ==
    /\ calls = 2 /\ last.op = "SeismicEvent.=="
    /\ seismicevent[last.other.id].id # None
    /\ seismicevent[last.self.id].id = None
    /\ seismicevent[last.self.id].seismiccatalog_id = seismicevent[last.other.id].seismiccatalog_id
    /\ seismicevent[last.self.id].seismiccatalog # seismicevent[last.other.id].seismiccatalog
    /\ returned = TheBool(TRUE)

\* C14: two series are equal exactly when they have the same number of
\* samples and their samples are pairwise equal in iteration order, for
\* Hydraulics and for SeismicCatalog, so a series equals its own unfiltered
\* snapshot.
C14_SeriesEqualityIsPairwise ==
    /\ (Called("Hydraulics.==") /\ isinstance(last.other, "Hydraulics")) =>
           LET a == samples[last.self.ref]
               b == samples[last.other.ref]
           IN  /\ last.raised = "none"
               /\ returned = TheBool(/\ Len(a) = Len(b)
                                     /\ \A i \in 1..Len(a) :
                                            ColumnsEqual(hydraulicsample[a[i]], hydraulicsample[b[i]],
                                                         HydraulicSampleMapper))
               /\ (calls = 2 /\ Len(a) = Len(b)) => returned = TheBool(TRUE)
    /\ (Called("SeismicCatalog.==") /\ isinstance(last.other, "SeismicCatalog")) =>
           LET a == events[last.self.ref]
               b == events[last.other.ref]
           IN  /\ last.raised = "none"
               /\ returned = TheBool(/\ Len(a) = Len(b)
                                     /\ \A i \in 1..Len(a) :
                                            ColumnsEqual(seismicevent[a[i]], seismicevent[b[i]],
                                                         SeismicEventMapper))
               /\ (calls = 2 /\ Len(a) = Len(b)) => returned = TheBool(TRUE)

\* The part of C14 that is about Hydraulics.
HydraulicsEqualityIsPairwise ==
    (Called("Hydraulics.==") /\ isinstance(last.other, "Hydraulics")) =>
        LET a == samples[last.self.ref]
            b == samples[last.other.ref]
        IN  /\ last.raised = "none"
            /\ returned = TheBool(/\ Len(a) = Len(b)
                                  /\ \A i \in 1..Len(a) :
                                         ColumnsEqual(hydraulicsample[a[i]], hydraulicsample[b[i]],
                                                      HydraulicSampleMapper))
            /\ (calls = 2 /\ Len(a) = Len(b)) => returned = TheBool(TRUE)

\* The calls of the comparison operators and of merge.
ComparisonOrMerge ==
    /\ calls > 0
    /\ last.op \in {c \o "." \o op :
                      c \in {"SeismicEvent", "HydraulicSample", "SeismicCatalog", "Hydraulics",
                             "ReservoirSeismicityPrediction"},
                      op \in ComparisonOps \cup {"merge"}}

\* C15: comparing (==, !=, <) a sample, a series or a prediction result with
\* an object of another kind, or merging a series with an object that is not
\* a series of the same kind, raises a type-mismatch error instead of
\* returning a result or silently doing nothing.
C15_OtherKindRaises ==
    (ComparisonOrMerge /\ ~isinstance(last.other, last.self.type)) =>
        last.raised \in {"ValueError", "AssertionError"}

\* The part of C15 that the code keeps: the comparisons of a sample and of
\* Hydraulics, the < of a prediction, and merge with an argument other than
\* None.
OtherKindRaisesWhereChecked ==
    (/\ ComparisonOrMerge /\ ~isinstance(last.other, last.self.type)
     /\ last.op \notin {"SeismicCatalog.==", "SeismicCatalog.!=",
                        "ReservoirSeismicityPrediction.==", "ReservoirSeismicityPrediction.!="}
     /\ ~(last.op = "Hydraulics.merge" /\ last.other = TheNone)) =>
        /\ last.raised \in {"ValueError", "AssertionError"}
        /\ returned = TheNone
        /\ events = before.events /\ samples = before.samples

(***************************************************************************)
(* Forecast, ForecastScenario, ForecastStage, ModelRun and Status.         *)
(*                                                                         *)
(* Every class has a heap: identity -> attributes.  A column holds a       *)
(* number or None, a flag "True", "False" or NoneObj; a relationship to    *)
(* one object holds its identity or None, a relationship to many holds     *)
(* the list of their identities.  A persisted object has its identity as   *)
(* primary key.                                                            *)
(***************************************************************************)
\* Scenarios of the forecast built by InitForecast.
MaxScenarios == 2
\* Runs of a stage built by InitForecast.
MaxRuns == 2

EStatus == {"PENDING", "RUNNING", "ERROR", "COMPLETE", "DISPATCHED"}

\* The heaps as one record.
Graph ==
    [forecast |-> forecast, forecastscenario |-> forecastscenario,
     forecaststage |-> forecaststage, modelrun |-> modelrun, status |-> status,
     wells |-> wells, catalogs |-> catalogs]

ForecastMapper ==
    [pk |-> {"id"}, fk |-> {"project_id"},
     rel |-> {"status", "project", "seismiccatalog", "well", "scenarios"}]

ForecastScenarioMapper ==
    [pk |-> {"id"}, fk |-> {"forecast_id"}, rel |-> {"status", "forecast", "well", "stages"}]

ForecastStageMapper ==
    [pk |-> {"id"}, fk |-> {"scenario_id"}, rel |-> {"status", "scenario", "runs"}]

ModelRunMapper ==
    [pk |-> {"id"}, fk |-> {"model_id", "forecaststage_id"},
     rel |-> {"status", "model", "forecaststage", "result"}]

StatusMapper ==
    [pk |-> {"id"}, fk |-> {"run_id", "forecast_id", "scenario_id", "stage_id"},
     rel |-> {"run", "forecast", "scenario", "stage"}]

\* Forecast(): every attribute None, every collection empty.
NewForecast ==
    [id |-> None, config |-> None, enabled |-> NoneObj, project_id |-> None, project |-> None,
     status |-> None, seismiccatalog |-> <<>>, well |-> <<>>, scenarios |-> <<>>]

\* ForecastScenario()
NewForecastScenario ==
    [id |-> None, config |-> None, enabled |-> NoneObj, forecast_id |-> None,
     forecast |-> None, well |-> None, stages |-> <<>>, status |-> None]

\* a ForecastStage of the class that _type names, without arguments
NewForecastStage(type) ==
    [id |-> None, _type |-> type, config |-> None, enabled |-> NoneObj, scenario_id |-> None,
     scenario |-> None, runs |-> <<>>, status |-> None]

\* SeismicityModelRun() or HazardModelRun()
NewModelRun(type) ==
    [id |-> None, _type |-> type, config |-> None, enabled |-> NoneObj, runid |-> None,
     model_id |-> None, model |-> None, forecaststage_id |-> None, forecaststage |-> None,
     status |-> None, result |-> None]

\* Status(state): Status.__init__ assigns state, info and starttime.
NewStatus(state) ==
    [id |-> None, state |-> state, run_id |-> None, run |-> None, forecast_id |-> None,
     forecast |-> None, scenario_id |-> None, scenario |-> None, stage_id |-> None,
     stage |-> None]

\* InjectionWell()
NewInjectionWell ==
    [id |-> None, forecast_id |-> None, forecast |-> None, scenario_id |-> None,
     scenario |-> None]

\* SeismicCatalog()
NewSeismicCatalog == [id |-> None, forecast_id |-> None, forecast |-> None]

\* utils.clone for an object whose relationships hold identities and lists;
\* new is type(obj)().
clone_onto(obj, mapper, with_foreignkeys, new) ==
    LET omit == mapper.pk \cup mapper.rel \cup (IF with_foreignkeys THEN {} ELSE mapper.fk)
    IN  [k \in DOMAIN obj |-> IF k \in omit THEN new[k] ELSE obj[k]]

\* F(x), with x evaluated once however often F refers to it.
With(x, F(_)) == CHOOSE r \in {F(v) : v \in {x}} : TRUE

\* Status.clone: the heaps with the clone, and its identity.
Status_clone(g0, self) ==
    With(g0, LAMBDA g :
        LET i == NewIdentity(g.status)
        IN  [g |-> [g EXCEPT !.status = Store(@, i, clone_onto(g.status[self], StatusMapper,
                                                              FALSE, NewStatus("PENDING")))],
             new |-> i])

\* ModelRun.clone: the outcome as [g, new, raised].  self.status.clone()
\* raises AttributeError when self.status is None.
ModelRun_clone(g0, self, with_results) ==
    With(g0, LAMBDA g :
        LET i == NewIdentity(g.modelrun)
            obj == g.modelrun[self]
            g1 == [g EXCEPT !.modelrun = Store(@, i, clone_onto(obj, ModelRunMapper, FALSE,
                                                               NewModelRun(obj._type)))]
            t == NewIdentity(g.status)
        IN  IF with_results
            THEN IF obj.status = None
                 THEN [g |-> g, new |-> None, raised |-> "AttributeError"]
                 ELSE With(Status_clone(g1, obj.status), LAMBDA s :
                          [g |-> [s.g EXCEPT !.modelrun[i].status = s.new,
                                             !.status[s.new].run = i],
                           new |-> i, raised |-> "none"])
            ELSE [g |-> [g1 EXCEPT !.status = Store(@, t, [NewStatus("PENDING") EXCEPT
                                                               !.run = i]),
                                   !.modelrun[i].status = t],
                  new |-> i, raised |-> "none"])

\* SeismicityModelRun.clone: the model is shared; without results the run
\* identifier is dropped, with results the method raises after the new run has
\* joined the model's runs.
SeismicityModelRun_clone(g, self, with_results) ==
    With(ModelRun_clone(g, self, with_results), LAMBDA r :
        IF r.raised # "none" THEN r
        ELSE LET g1 == [r.g EXCEPT !.modelrun[r.new].model = r.g.modelrun[self].model]
             IN  IF ~with_results
                 THEN [g |-> [g1 EXCEPT !.modelrun[r.new].runid = None],
                       new |-> r.new, raised |-> "none"]
                 ELSE [g |-> g1, new |-> None, raised |-> "NotImplementedError"])

\* HazardModelRun.clone: the same statements as SeismicityModelRun.clone.
HazardModelRun_clone(g, self, with_results) ==
    With(ModelRun_clone(g, self, with_results), LAMBDA r :
        IF r.raised # "none" THEN r
        ELSE LET g1 == [r.g EXCEPT !.modelrun[r.new].model = r.g.modelrun[self].model]
             IN  IF ~with_results
                 THEN [g |-> [g1 EXCEPT !.modelrun[r.new].runid = None],
                       new |-> r.new, raised |-> "none"]
                 ELSE [g |-> g1, new |-> None, raised |-> "NotImplementedError"])

\* run.clone(with_results), dispatched on the class of the run
Run_clone(g0, self, with_results) ==
    With(g0, LAMBDA g :
        IF g.modelrun[self]._type = "SEISMICITY"
        THEN SeismicityModelRun_clone(g, self, with_results)
        ELSE HazardModelRun_clone(g, self, with_results))

\* The loop "for run in self.runs: new.runs.append(run.clone(with_results))"
\* over the runs src still to visit; an exception ends it.
RECURSIVE SeismicityForecastStage_clone_loop(_, _, _, _)
SeismicityForecastStage_clone_loop(src, g, new, with_results) ==
    IF src = <<>> THEN [g |-> g, new |-> new, raised |-> "none"]
    ELSE With(Run_clone(g, Head(src), with_results), LAMBDA r :
             IF r.raised # "none" THEN [g |-> r.g, new |-> None, raised |-> r.raised]
             ELSE SeismicityForecastStage_clone_loop(Tail(src),
                      [r.g EXCEPT !.forecaststage[new].runs = Append(@, r.new),
                                  !.modelrun[r.new].forecaststage = new],
                      new, with_results))

\* SeismicityForecastStage.clone
SeismicityForecastStage_clone(g0, self, with_results) ==
    With(g0, LAMBDA g :
        LET i == NewIdentity(g.forecaststage)
            obj == g.forecaststage[self]
        IN  SeismicityForecastStage_clone_loop(obj.runs,
                [g EXCEPT !.forecaststage = Store(@, i,
                    clone_onto(obj, ForecastStageMapper, FALSE, NewForecastStage(obj._type)))],
                i, with_results))

\* ForecastStage.clone, which HazardStage inherits: the runs are not cloned.
ForecastStage_clone(g0, self, with_results) ==
    With(g0, LAMBDA g :
        LET i == NewIdentity(g.forecaststage)
            obj == g.forecaststage[self]
        IN  [g |-> [g EXCEPT !.forecaststage = Store(@, i,
                        clone_onto(obj, ForecastStageMapper, FALSE,
                                   NewForecastStage(obj._type)))],
             new |-> i, raised |-> "none"])

\* stage.clone(with_results), dispatched on the class of the stage
Stage_clone(g0, self, with_results) ==
    With(g0, LAMBDA g :
        IF g.forecaststage[self]._type = "SEISMICITY"
        THEN SeismicityForecastStage_clone(g, self, with_results)
        ELSE ForecastStage_clone(g, self, with_results))

\* scenario.well = well for a scenario without well.  The assignment sets
\* well.scenario through back_populates; the scenario the well belonged to is
\* not visited by that event and keeps its own reference to the well.
SetScenarioWell(g0, scenario, well) ==
    With(g0, LAMBDA g :
        IF well = None THEN g
        ELSE [g EXCEPT !.forecastscenario[scenario].well = well,
                       !.wells[well].scenario = scenario])

\* The loop "for stage in self.stages: new.stages.append(stage.clone(with_results))"
\* over the stages src still to visit; an exception ends it.
RECURSIVE ForecastScenario_clone_loop(_, _, _, _)
ForecastScenario_clone_loop(src, g, new, with_results) ==
    IF src = <<>> THEN [g |-> g, new |-> new, raised |-> "none"]
    ELSE With(Stage_clone(g, Head(src), with_results), LAMBDA r :
             IF r.raised # "none" THEN [g |-> r.g, new |-> None, raised |-> r.raised]
             ELSE ForecastScenario_clone_loop(Tail(src),
                      [r.g EXCEPT !.forecastscenario[new].stages = Append(@, r.new),
                                  !.forecaststage[r.new].scenario = new],
                      new, with_results))

\* ForecastScenario.clone
ForecastScenario_clone(g0, self, with_results) ==
    With(g0, LAMBDA g :
        LET i == NewIdentity(g.forecastscenario)
            obj == g.forecastscenario[self]
        IN  ForecastScenario_clone_loop(obj.stages,
                SetScenarioWell([g EXCEPT !.forecastscenario = Store(@, i,
                                    clone_onto(obj, ForecastScenarioMapper, FALSE,
                                               NewForecastScenario))],
                                i, obj.well),
                i, with_results))

\* forecast.seismiccatalog = lst.  Appending a catalog sets catalog.forecast
\* through back_populates, and that change removes the catalog from the list
\* of the forecast it belonged to; a catalog the list held before and that is
\* not in lst loses its forecast.
SetForecastCatalogs(g0, self, lst) ==
    With(g0, LAMBDA g :
        LET notmoved(c) == c \notin Range(lst)
        IN  [g EXCEPT
                !.forecast = [f \in DOMAIN @ |->
                                 IF f = self THEN [@[f] EXCEPT !.seismiccatalog = lst]
                                 ELSE [@[f] EXCEPT !.seismiccatalog = SelectSeq(@, notmoved)]],
                !.catalogs = [c \in DOMAIN @ |->
                                 IF c \in Range(lst) THEN [@[c] EXCEPT !.forecast = self]
                                 ELSE IF c \in Range(g.forecast[self].seismiccatalog)
                                      THEN [@[c] EXCEPT !.forecast = None]
                                      ELSE @[c]]])

\* forecast.well = lst, likewise
SetForecastWells(g0, self, lst) ==
    With(g0, LAMBDA g :
        LET notmoved(w) == w \notin Range(lst)
        IN  [g EXCEPT
                !.forecast = [f \in DOMAIN @ |->
                                 IF f = self THEN [@[f] EXCEPT !.well = lst]
                                 ELSE [@[f] EXCEPT !.well = SelectSeq(@, notmoved)]],
                !.wells = [w \in DOMAIN @ |->
                              IF w \in Range(lst) THEN [@[w] EXCEPT !.forecast = self]
                              ELSE IF w \in Range(g.forecast[self].well)
                                   THEN [@[w] EXCEPT !.forecast = None]
                                   ELSE @[w]]])

\* Forecast.append
Forecast_append(g0, self, scenario) ==
    With(g0, LAMBDA g :
        [g EXCEPT !.forecast[self].scenarios = Append(@, scenario),
                  !.forecastscenario[scenario].forecast = self])

\* The loop "for scenario in self.scenarios: new.append(scenario.clone(with_results=False))"
\* over the scenarios src still to visit.
RECURSIVE Forecast_clone_loop(_, _, _)
Forecast_clone_loop(src, g, new) ==
    IF src = <<>> THEN [g |-> g, new |-> new, raised |-> "none"]
    ELSE With(ForecastScenario_clone(g, Head(src), FALSE), LAMBDA r :
             IF r.raised # "none" THEN [g |-> r.g, new |-> None, raised |-> r.raised]
             ELSE Forecast_clone_loop(Tail(src), Forecast_append(r.g, new, r.new), new))

\* Forecast.clone
Forecast_clone(g0, self, with_results) ==
    With(g0, LAMBDA g :
        LET i == NewIdentity(g.forecast)
            obj == g.forecast[self]
            g1 == [g EXCEPT !.forecast = Store(@, i,
                                clone_onto(obj, ForecastMapper, FALSE, NewForecast))]
        IN  Forecast_clone_loop(obj.scenarios,
                IF with_results
                THEN SetForecastWells(SetForecastCatalogs(g1, i, obj.seismiccatalog),
                                      i, obj.well)
                ELSE g1,
                i))

\* run.status = None: the status it had loses its run.
ClearRunStatus(g0, run) ==
    With(g0, LAMBDA g :
        LET t == g.modelrun[run].status
        IN  IF t = None THEN g
            ELSE [g EXCEPT !.modelrun[run].status = None, !.status[t].run = None])

\* SeismicityForecastStage.reset over the runs src still to visit
RECURSIVE SeismicityForecastStage_reset(_, _)
SeismicityForecastStage_reset(src, g) ==
    IF src = <<>> THEN g
    ELSE SeismicityForecastStage_reset(Tail(src), ClearRunStatus(g, Head(src)))

\* stage.reset(): SeismicityForecastStage visits its runs, HazardStage passes.
Stage_reset(g0, self) ==
    With(g0, LAMBDA g :
        IF g.forecaststage[self]._type = "SEISMICITY"
        THEN SeismicityForecastStage_reset(g.forecaststage[self].runs, g)
        ELSE g)

\* ForecastScenario.reset over the stages src still to visit
RECURSIVE ForecastScenario_reset(_, _)
ForecastScenario_reset(src, g) ==
    IF src = <<>> THEN g
    ELSE ForecastScenario_reset(Tail(src), Stage_reset(g, Head(src)))

\* The loop "for scenario in self.scenarios: scenario.reset()"
RECURSIVE Forecast_reset_loop(_, _)
Forecast_reset_loop(src, g0) ==
    IF src = <<>> THEN g0
    ELSE With(g0, LAMBDA g :
             Forecast_reset_loop(Tail(src),
                 ForecastScenario_reset(g.forecastscenario[Head(src)].stages, g)))

\* Forecast.reset
Forecast_reset(g0, self) ==
    With(g0, LAMBDA g :
        Forecast_reset_loop(g.forecast[self].scenarios, SetForecastCatalogs(g, self, <<>>)))

(***************************************************************************)
(* The forecast the operations start from: one persisted forecast with     *)
(* n scenarios, each with a well, a seismicity stage and, if hazard, a     *)
(* hazard stage; the runs of a stage have the statuses that shapes lists.  *)
(***************************************************************************)
\* A run's status: one of the states, or no Status object at all.
Shapes == EStatus \cup {"NoStatus"}

RunShapes == UNION {[1..n -> Shapes] : n \in 0..MaxRuns}

\* The states given to the statuses of the forecast, scenarios and stages.
ContainerStates == {"PENDING", "COMPLETE"}

NoObjects ==
    [forecast |-> <<>>, forecastscenario |-> <<>>, forecaststage |-> <<>>, modelrun |-> <<>>,
     status |-> <<>>, wells |-> <<>>, catalogs |-> <<>>]

\* A persisted Status(state) owned through the relationship named owner.
AddStatus(g0, state, owner, i) ==
    With(g0, LAMBDA g :
        LET t == NewIdentity(g.status)
            s == [NewStatus(state) EXCEPT !.id = t]
        IN  [g EXCEPT !.status = Store(@, t,
                CASE owner = "run" -> [s EXCEPT !.run = i, !.run_id = i]
                  [] owner = "stage" -> [s EXCEPT !.stage = i, !.stage_id = i]
                  [] owner = "scenario" -> [s EXCEPT !.scenario = i, !.scenario_id = i]
                  [] owner = "forecast" -> [s EXCEPT !.forecast = i, !.forecast_id = i])])

\* The model a run of the class type belongs to.
ModelOf(type) == IF type = "SEISMICITY" THEN 1 ELSE 2

\* The runs k.. of shapes, appended to the stage; run k has config k, is
\* enabled for odd k, and has a result if it is a complete seismicity run.
RECURSIVE AddRuns(_, _, _, _, _)
AddRuns(g0, stage, type, shapes, k) ==
    IF k > Len(shapes) THEN g0
    ELSE With(g0, LAMBDA g :
             LET i == NewIdentity(g.modelrun)
                 hasstatus == shapes[k] # "NoStatus"
                 run == [NewModelRun(type) EXCEPT
                            !.id = i, !.config = k,
                            !.enabled = IF k % 2 = 1 THEN "True" ELSE "False",
                            !.runid = IF type = "SEISMICITY" THEN k ELSE None,
                            !.model_id = ModelOf(type), !.model = ModelOf(type),
                            !.forecaststage_id = stage, !.forecaststage = stage,
                            !.status = IF hasstatus THEN NewIdentity(g.status) ELSE None,
                            !.result = IF type = "SEISMICITY" /\ shapes[k] = "COMPLETE"
                                       THEN i ELSE None]
                 g1 == [g EXCEPT !.modelrun = Store(@, i, run),
                                 !.forecaststage[stage].runs = Append(@, i)]
             IN  AddRuns(IF hasstatus THEN AddStatus(g1, shapes[k], "run", i) ELSE g1,
                         stage, type, shapes, k + 1))

\* A stage of the class type with its status and runs, appended to the scenario.
AddStage(g0, scenario, type, shapes, state) ==
    With(g0, LAMBDA g :
        LET i == NewIdentity(g.forecaststage)
            stage == [NewForecastStage(type) EXCEPT
                         !.id = i, !.config = i, !.enabled = "True",
                         !.scenario_id = scenario, !.scenario = scenario,
                         !.status = NewIdentity(g.status)]
            g1 == [g EXCEPT !.forecaststage = Store(@, i, stage),
                            !.forecastscenario[scenario].stages = Append(@, i)]
        IN  AddRuns(AddStatus(g1, state, "stage", i), i, type, shapes, 1))

\* Scenarios k..n of the forecast, each with its status, well and stages.
RECURSIVE AddScenarios(_, _, _, _, _, _, _)
AddScenarios(g0, fc, shapes, hazard, state, k, n) ==
    IF k > n THEN g0
    ELSE With(g0, LAMBDA g :
             LET i == NewIdentity(g.forecastscenario)
                 w == NewIdentity(g.wells)
                 scenario == [NewForecastScenario EXCEPT
                                 !.id = i, !.config = i, !.enabled = "True",
                                 !.forecast_id = fc, !.forecast = fc, !.well = w,
                                 !.status = NewIdentity(g.status)]
                 g1 == [g EXCEPT !.forecastscenario = Store(@, i, scenario),
                                 !.forecast[fc].scenarios = Append(@, i),
                                 !.wells = Store(@, w, [NewInjectionWell EXCEPT
                                                !.id = w, !.scenario_id = i, !.scenario = i])]
                 g2 == AddStage(AddStatus(g1, state, "scenario", i), i, "SEISMICITY",
                                shapes, state)
             IN  AddScenarios(IF hazard THEN AddStage(g2, i, "HAZARD", shapes, state) ELSE g2,
                              fc, shapes, hazard, state, k + 1, n))

\* The forecast, with a catalog and a well of its own if inputs.
BuildForecast(shapes, hazard, n, inputs, state) ==
    LET fc == [NewForecast EXCEPT
                  !.id = 1, !.config = 1, !.enabled = "True", !.project_id = 1,
                  !.project = 1, !.status = 1,
                  !.seismiccatalog = IF inputs THEN <<1>> ELSE <<>>,
                  !.well = IF inputs THEN <<1>> ELSE <<>>]
        g1 == [NoObjects EXCEPT
                  !.forecast = <<fc>>,
                  !.catalogs = IF inputs
                               THEN <<[NewSeismicCatalog EXCEPT
                                          !.id = 1, !.forecast_id = 1, !.forecast = 1]>>
                               ELSE <<>>,
                  !.wells = IF inputs
                            THEN <<[NewInjectionWell EXCEPT
                                       !.id = 1, !.forecast_id = 1, !.forecast = 1]>>
                            ELSE <<>>]
    IN  AddScenarios(AddStatus(g1, state, "forecast", 1), 1, shapes, hazard, state, 1, n)

ForecastCall(op, self, with_results, raised) ==
    [op |-> op, self |-> self, with_results |-> with_results, raised |-> raised]

AnObject(type, i) == Operand(type, NoneObj, i, "object")

\* The heaps become those of g.
Becomes(g) ==
    /\ forecast' = g.forecast
    /\ forecastscenario' = g.forecastscenario
    /\ forecaststage' = g.forecaststage
    /\ modelrun' = g.modelrun
    /\ status' = g.status
    /\ wells' = g.wells
    /\ catalogs' = g.catalogs

\* What a call leaves: the heaps and the value returned by [g, new, raised].
Leaves(r, type, op, self, with_results) ==
    /\ Becomes(r.g)
    /\ returned' = IF r.raised = "none" /\ r.new # None THEN AnObject(type, r.new)
                   ELSE TheNone
    /\ last' = ForecastCall(op, self, with_results, r.raised)
    /\ calls' = calls + 1
    /\ before' = Graph
    /\ UNCHANGED seriesvars
    /\ UNCHANGED othervars

\* returned = forecast.clone(with_results)
ForecastClone(with_results) ==
    /\ calls = 0
    /\ \E r \in {Forecast_clone(Graph, 1, with_results)} :
           Leaves(r, "Forecast", "Forecast.clone", 1, with_results)

\* forecast.reset()
ForecastReset ==
    /\ calls = 0
    /\ \E g \in {Forecast_reset(Graph, 1)} :
           Leaves([g |-> g, new |-> None, raised |-> "none"], "NoneType", "Forecast.reset",
                  1, FALSE)

\* returned = scenario.clone(with_results) for a scenario of the forecast
ForecastScenarioClone(scenario, with_results) ==
    /\ calls = 0
    /\ scenario \in Range(forecast[1].scenarios)
    /\ \E r \in {ForecastScenario_clone(Graph, scenario, with_results)} :
           Leaves(r, "ForecastScenario", "ForecastScenario.clone", scenario, with_results)

\* returned = run.clone(with_results) for a run of the forecast, as the first
\* call or after forecast.reset()
ModelRunClone(run, with_results) ==
    /\ calls = 0 \/ (calls = 1 /\ last.op = "Forecast.reset")
    /\ run \in DOMAIN modelrun
    /\ \E r \in {Run_clone(Graph, run, with_results)} :
           Leaves(r, "ModelRun", "ModelRun.clone", run, with_results)

\* scenario.reset() for a scenario of the forecast
ForecastScenarioReset(scenario) ==
    /\ calls = 0
    /\ scenario \in Range(forecast[1].scenarios)
    /\ \E g \in {ForecastScenario_reset(forecastscenario[scenario].stages, Graph)} :
           Leaves([g |-> g, new |-> None, raised |-> "none"], "NoneType",
                  "ForecastScenario.reset", scenario, FALSE)

\* stage.reset() for a stage of the forecast
ForecastStageReset(stage) ==
    /\ calls = 0
    /\ stage \in DOMAIN forecaststage
    /\ \E g \in {Stage_reset(Graph, stage)} :
           Leaves([g |-> g, new |-> None, raised |-> "none"], "NoneType",
                  "ForecastStage.reset", stage, FALSE)

NextForecast ==
    \/ \E with_results \in BOOLEAN : ForecastClone(with_results)
    \/ ForecastReset
    \/ \E scenario \in 1..MaxScenarios : ForecastScenarioReset(scenario)
    \/ \E stage \in 1..(2 * MaxScenarios) : ForecastStageReset(stage)
    \/ \E scenario \in 1..MaxScenarios, with_results \in BOOLEAN :
           ForecastScenarioClone(scenario, with_results)
    \/ \E run \in 1..(2 * MaxScenarios * MaxRuns), with_results \in BOOLEAN :
           ModelRunClone(run, with_results)

InitForecast ==
    \E shapes \in RunShapes, hazard \in BOOLEAN, n \in 0..MaxScenarios, inputs \in BOOLEAN,
       state \in ContainerStates :
        \E g \in {BuildForecast(shapes, hazard, n, inputs, state)} :
            /\ forecast = g.forecast
            /\ forecastscenario = g.forecastscenario
            /\ forecaststage = g.forecaststage
            /\ modelrun = g.modelrun
            /\ status = g.status
            /\ wells = g.wells
            /\ catalogs = g.catalogs
            /\ NoOthers
            /\ events = BuildCatalogs(<<>>, <<>>)
            /\ seismicevent = BuildSeismicEvents(<<>>, <<>>)
            /\ samples = BuildHydraulics(<<>>, <<>>)
            /\ hydraulicsample = BuildHydraulicSamples(<<>>, <<>>)
            /\ calls = 0
            /\ last = ForecastCall("init", None, FALSE, "none")
            /\ before = g
            /\ returned = TheNone

SpecForecast == InitForecast /\ [][NextForecast]_vars

(***************************************************************************)
(* Claims about Forecast.clone, ForecastScenario.clone, the clone of a     *)
(* run and Forecast.reset, over SpecForecast.                              *)
(***************************************************************************)
\* The forecast the call was made on, as the call found it.
Original == before.forecast[1]

\* The runs of the forecast as the call found it.
OriginalRuns == DOMAIN before.modelrun

\* The run new is a run made by the call that has a status of its own in
\* state PENDING, neither result nor run identifier, and the model, config
\* and enabled flag of the run old.
ClonedRunWithoutResults(new, old) ==
    /\ new \notin OriginalRuns
    /\ modelrun[new].id = None
    /\ modelrun[new].status # None
    /\ modelrun[new].status \notin DOMAIN before.status
    /\ status[modelrun[new].status].state = "PENDING"
    /\ modelrun[new].result = None
    /\ modelrun[new].runid = None
    /\ modelrun[new].model = before.modelrun[old].model
    /\ modelrun[new].config = before.modelrun[old].config
    /\ modelrun[new].enabled = before.modelrun[old].enabled

\* The stage new is a stage made by the call, of the class of the stage old,
\* with one run for each run of old that is its clone in the sense of Run.
ClonedStage(new, old, Run(_, _)) ==
    /\ new \notin DOMAIN before.forecaststage
    /\ forecaststage[new]._type = before.forecaststage[old]._type
    /\ Len(forecaststage[new].runs) = Len(before.forecaststage[old].runs)
    /\ \A k \in 1..Len(before.forecaststage[old].runs) :
           Run(forecaststage[new].runs[k], before.forecaststage[old].runs[k])

\* The scenario new is a scenario made by the call, with one stage for each
\* stage of the scenario old that is its clone in the sense of Stage.
ClonedScenario(new, old, Stage(_, _)) ==
    /\ new \notin DOMAIN before.forecastscenario
    /\ Len(forecastscenario[new].stages) = Len(before.forecastscenario[old].stages)
    /\ \A j \in 1..Len(before.forecastscenario[old].stages) :
           Stage(forecastscenario[new].stages[j], before.forecastscenario[old].stages[j])

\* The call returned a forecast it made, without primary key, catalog and
\* well, with one scenario for each scenario of the original that is its
\* clone in the sense of Scenario.
ReturnedForecastWithoutInputs(Scenario(_, _)) ==
    /\ last.raised = "none"
    /\ returned.type = "Forecast"
    /\ returned.id \notin DOMAIN before.forecast
    /\ forecast[returned.id].id = None
    /\ forecast[returned.id].seismiccatalog = <<>>
    /\ forecast[returned.id].well = <<>>
    /\ Len(forecast[returned.id].scenarios) = Len(Original.scenarios)
    /\ \A i \in 1..Len(Original.scenarios) :
           Scenario(forecast[returned.id].scenarios[i], Original.scenarios[i])

\* C16: Forecast.clone(with_results=False) returns a new forecast without
\* primary key, seismic catalog and forecast-level well, with one cloned
\* scenario per scenario, one cloned stage per stage and one cloned run per
\* run; every cloned run has a fresh status in state PENDING, no result and no
\* run identifier, and the model, config and enabled flag of its original.
C16_CloneWithoutResults ==
    Called("Forecast.clone") /\ ~last.with_results =>
        ReturnedForecastWithoutInputs(
            LAMBDA sn, so : ClonedScenario(sn, so,
                LAMBDA tn, to : ClonedStage(tn, to, ClonedRunWithoutResults)))

\* A stage is cloned with its runs if it is a seismicity stage, and without
\* any run otherwise.
ClonedStageAsCoded(new, old) ==
    IF before.forecaststage[old]._type = "SEISMICITY"
    THEN ClonedStage(new, old, ClonedRunWithoutResults)
    ELSE /\ new \notin DOMAIN before.forecaststage
         /\ forecaststage[new]._type = before.forecaststage[old]._type
         /\ forecaststage[new].runs = <<>>

\* What holds of Forecast.clone(with_results=False): the statement of C16
\* for the seismicity stages; the clone of a hazard stage has no runs.
CloneWithoutResultsAsCoded ==
    Called("Forecast.clone") /\ ~last.with_results =>
        ReturnedForecastWithoutInputs(
            LAMBDA sn, so : ClonedScenario(sn, so, ClonedStageAsCoded))

\* Forecast.clone(with_results=False) has cloned a forecast with runs in every
\* state and a hazard stage.
CloneWithoutResultsHappened ==
    /\ Called("Forecast.clone") /\ ~last.with_results
    /\ Len(Original.scenarios) = MaxScenarios
    /\ \E r \in OriginalRuns : before.modelrun[r]._type = "HAZARD"
    /\ \E r \in OriginalRuns : /\ before.modelrun[r].status # None
                               /\ before.status[before.modelrun[r].status].state = "COMPLETE"

\* After Forecast.clone, the scenario i of the clone and the scenario i of the
\* original both reference the well the original referenced.
ScenarioWellsShared ==
    \A i \in 1..Len(Original.scenarios) :
        /\ forecastscenario[forecast[returned.id].scenarios[i]].well
               = before.forecastscenario[Original.scenarios[i]].well
        /\ forecastscenario[Original.scenarios[i]].well
               = before.forecastscenario[Original.scenarios[i]].well

\* C17: cloning shares inputs by reference without taking them away from the
\* original: after Forecast.clone the scenarios of the clone and of the
\* original reference the same wells, and after
\* Forecast.clone(with_results=True) the clone and the original forecast
\* both include the original's seismic catalog and well.
C17_CloneSharesInputs ==
    Called("Forecast.clone") /\ last.raised = "none" =>
        /\ ScenarioWellsShared
        /\ last.with_results =>
               /\ Range(Original.seismiccatalog) \subseteq Range(forecast[returned.id].seismiccatalog)
               /\ Range(Original.seismiccatalog) \subseteq Range(forecast[1].seismiccatalog)
               /\ Range(Original.well) \subseteq Range(forecast[returned.id].well)
               /\ Range(Original.well) \subseteq Range(forecast[1].well)

\* What holds of the inputs after Forecast.clone: the scenarios share their
\* wells, every such well names the clone's scenario as its scenario, and with
\* results the catalog and well of the forecast have moved to the clone.
CloneInputsAsCoded ==
    Called("Forecast.clone") /\ last.raised = "none" =>
        /\ ScenarioWellsShared
        /\ \A i \in 1..Len(Original.scenarios) :
               wells[before.forecastscenario[Original.scenarios[i]].well].scenario
                   = forecast[returned.id].scenarios[i]
        /\ last.with_results =>
               /\ forecast[returned.id].seismiccatalog = Original.seismiccatalog
               /\ forecast[returned.id].well = Original.well
               /\ forecast[1].seismiccatalog = <<>>
               /\ forecast[1].well = <<>>
               /\ \A c \in Range(Original.seismiccatalog) : catalogs[c].forecast = returned.id
               /\ \A w \in Range(Original.well) : wells[w].forecast = returned.id
        /\ ~last.with_results =>
               /\ forecast[1].seismiccatalog = Original.seismiccatalog
               /\ forecast[1].well = Original.well

\* Forecast.clone(with_results=True) has cloned a forecast that has a catalog,
\* a well and scenarios.
CloneWithInputsHappened ==
    /\ Called("Forecast.clone") /\ last.with_results /\ last.raised = "none"
    /\ Original.seismiccatalog # <<>>
    /\ Original.well # <<>>
    /\ Len(Original.scenarios) = MaxScenarios

\* The run new is a run made by the call that has the status state and the
\* result of the run old.
ClonedRunWithResults(new, old) ==
    /\ new \notin OriginalRuns
    /\ (before.modelrun[old].status = None) = (modelrun[new].status = None)
    /\ modelrun[new].status # None =>
           status[modelrun[new].status].state
               = before.status[before.modelrun[old].status].state
    /\ modelrun[new].result = before.modelrun[old].result

\* C18: Forecast.clone(with_results=True) appends results and related data:
\* every cloned run keeps the status state and the result of its original,
\* just as a scenario returned by ForecastScenario.clone(with_results=True)
\* has runs that keep them.
C18_CloneWithResultsKeepsResults ==
    /\ Called("Forecast.clone") /\ last.with_results =>
           /\ last.raised = "none"
           /\ Len(forecast[returned.id].scenarios) = Len(Original.scenarios)
           /\ \A i \in 1..Len(Original.scenarios) :
                  ClonedScenario(forecast[returned.id].scenarios[i], Original.scenarios[i],
                      LAMBDA tn, to : ClonedStage(tn, to, ClonedRunWithResults))
    /\ Called("ForecastScenario.clone") /\ last.with_results /\ last.raised = "none" =>
           ClonedScenario(returned.id, last.self,
               LAMBDA tn, to : ClonedStage(tn, to, ClonedRunWithResults))

\* The runs of the seismicity stages of the scenario, as the call found them.
SeismicityRunsBefore(scenario) ==
    {r \in OriginalRuns :
        /\ before.modelrun[r]._type = "SEISMICITY"
        /\ before.modelrun[r].forecaststage \in Range(before.forecastscenario[scenario].stages)}

\* What holds of cloning with results: Forecast.clone clones every scenario
\* without results and never raises; ForecastScenario.clone hands the flag to
\* its runs, so it returns only for a scenario without seismicity runs.
CloneWithResultsAsCoded ==
    /\ Called("Forecast.clone") /\ last.with_results =>
           /\ last.raised = "none"
           /\ \A i \in 1..Len(Original.scenarios) :
                  ClonedScenario(forecast[returned.id].scenarios[i], Original.scenarios[i],
                                 ClonedStageAsCoded)
    /\ Called("ForecastScenario.clone") /\ last.with_results =>
           /\ (last.raised = "none") = (SeismicityRunsBefore(last.self) = {})
           /\ last.raised \in {"none", "NotImplementedError", "AttributeError"}

\* Forecast.clone(with_results=True) has cloned a forecast with a complete
\* run that has a result.
CloneWithResultsHappened ==
    /\ Called("Forecast.clone") /\ last.with_results
    /\ \E r \in OriginalRuns : before.modelrun[r].result # None

\* C19: SeismicityModelRun.clone(with_results=True) and
\* HazardModelRun.clone(with_results=True) return no clone and fail with
\* NotImplementedError in every state of the run, also when a reset() before
\* has set the run's status to None.
C19_CloneWithResultsNotImplemented ==
    Called("ModelRun.clone") /\ last.with_results =>
        /\ last.raised = "NotImplementedError"
        /\ returned = TheNone

\* What holds of run.clone(with_results=True): it returns no clone; it fails
\* with NotImplementedError for a run that has a status and with
\* AttributeError for a run without.
RunCloneWithResultsAsCoded ==
    Called("ModelRun.clone") /\ last.with_results =>
        /\ returned = TheNone
        /\ last.raised = IF before.modelrun[last.self].status = None
                         THEN "AttributeError" ELSE "NotImplementedError"

\* run.clone(with_results=True) was called after forecast.reset() on a
\* seismicity run that had a status before the reset.
RunCloneAfterResetHappened ==
    /\ calls = 2 /\ last.op = "ModelRun.clone" /\ last.with_results
    /\ before.modelrun[last.self]._type = "SEISMICITY"
    /\ before.modelrun[last.self].status = None
    /\ before.modelrun[last.self].result # None

\* The object has a status, and it is in state PENDING.
IsPending(obj) == obj.status # None /\ status[obj.status].state = "PENDING"

\* The call changed neither the config nor the enabled flag of any scenario,
\* stage or run or of the forecast, nor the lists of scenarios, stages and
\* runs, nor the model of any run.
ResetFrame ==
    /\ DOMAIN forecastscenario = DOMAIN before.forecastscenario
    /\ DOMAIN forecaststage = DOMAIN before.forecaststage
    /\ DOMAIN modelrun = DOMAIN before.modelrun
    /\ forecast[1].config = Original.config
    /\ forecast[1].enabled = Original.enabled
    /\ forecast[1].scenarios = Original.scenarios
    /\ \A s \in DOMAIN forecastscenario :
           /\ forecastscenario[s].config = before.forecastscenario[s].config
           /\ forecastscenario[s].enabled = before.forecastscenario[s].enabled
           /\ forecastscenario[s].stages = before.forecastscenario[s].stages
    /\ \A t \in DOMAIN forecaststage :
           /\ forecaststage[t].config = before.forecaststage[t].config
           /\ forecaststage[t].enabled = before.forecaststage[t].enabled
           /\ forecaststage[t].runs = before.forecaststage[t].runs
    /\ \A r \in DOMAIN modelrun :
           /\ modelrun[r].config = before.modelrun[r].config
           /\ modelrun[r].enabled = before.modelrun[r].enabled
           /\ modelrun[r].model = before.modelrun[r].model

\* C20: Forecast.reset() empties the forecast's seismic catalog reference and
\* leaves every scenario, stage and run of the forecast with status PENDING,
\* whatever their status before, while config, enabled flags, the sets of
\* scenarios, stages and runs and the runs' models are unchanged.
C20_ResetLeavesPending ==
    Called("Forecast.reset") =>
        /\ forecast[1].seismiccatalog = <<>>
        /\ \A s \in DOMAIN forecastscenario : IsPending(forecastscenario[s])
        /\ \A t \in DOMAIN forecaststage : IsPending(forecaststage[t])
        /\ \A r \in DOMAIN modelrun : IsPending(modelrun[r])
        /\ ResetFrame

\* What holds of Forecast.reset(): the catalogs leave the forecast, every run
\* of a seismicity stage is left without status, and nothing else changes:
\* the scenarios, the stages and the hazard runs keep the status they had,
\* and every run keeps its result.
ResetAsCoded ==
    Called("Forecast.reset") =>
        /\ forecast[1].seismiccatalog = <<>>
        /\ \A c \in Range(Original.seismiccatalog) : catalogs[c].forecast = None
        /\ forecastscenario = before.forecastscenario
        /\ forecaststage = before.forecaststage
        /\ \A r \in DOMAIN modelrun :
               IF modelrun[r]._type = "SEISMICITY"
               THEN modelrun[r] = [before.modelrun[r] EXCEPT !.status = None]
               ELSE modelrun[r] = before.modelrun[r]
        /\ \A t \in DOMAIN status : status[t].state = before.status[t].state
        /\ ResetFrame

\* Forecast.reset() was called on a forecast with a catalog and with runs
\* that were not pending.
ResetHappened ==
    /\ Called("Forecast.reset")
    /\ Original.seismiccatalog # <<>>
    /\ \E r \in OriginalRuns : /\ before.modelrun[r].status # None
                               /\ before.status[before.modelrun[r].status].state = "COMPLETE"

\* The runs beneath the object the last reset was called on, as the call
\* found them.
RunsBeneath ==
    {r \in OriginalRuns :
        CASE last.op = "Forecast.reset" -> TRUE
          [] last.op = "ForecastScenario.reset" ->
                 before.modelrun[r].forecaststage
                     \in Range(before.forecastscenario[last.self].stages)
          [] last.op = "ForecastStage.reset" -> before.modelrun[r].forecaststage = last.self
          [] OTHER -> FALSE}

ResetCalled ==
    calls > 0 /\ last.op \in {"Forecast.reset", "ForecastScenario.reset", "ForecastStage.reset"}

\* C21: after reset() on a forecast, a scenario or a stage, no run beneath it
\* has a result: every result computed before the reset is removed.
C21_ResetRemovesResults ==
    ResetCalled => \A r \in RunsBeneath : modelrun[r].result = None

\* What holds of reset(): every run beneath keeps the result it had.
ResetKeepsResults ==
    ResetCalled => \A r \in RunsBeneath : modelrun[r].result = before.modelrun[r].result

\* A reset was called above a run that had a result.
ResetAboveResultHappened ==
    /\ ResetCalled
    /\ last.op = "ForecastStage.reset"
    /\ \E r \in RunsBeneath : before.modelrun[r].result # None

(***************************************************************************)
(* The session and the orphan sweep of project.py.  A SeismicCatalog and   *)
(* an InjectionWell refer to their owners by identity; an object of the    *)
(* session is named by its kind and its identity.  The columns of a        *)
(* persisted object's row are its <owner>_id attributes, which a flush     *)
(* brings in step with the relationships.                                  *)
(***************************************************************************)
\* Objects a session holds in one behaviour.
MaxObjects == 2

\* _ENTITIES, in the order their listeners are registered
ENTITIES == <<"SeismicCatalog", "InjectionWell">>

\* The owner relationships of a kind.
Owners(kind) ==
    IF kind = "SeismicCatalog" THEN {"project", "forecast"}
    ELSE {"project", "forecast", "scenario"}

\* Project.well cascades 'all, delete-orphan'; Project.seismiccatalog 'all'.
DeleteOrphan == {"InjectionWell"}

\* SeismicCatalog(project=..., forecast=...): hasparent is what the
\* delete-orphan cascade of the project knows about the catalog's parent.
SeismicCatalogOf(p, f) ==
    [id |-> None, project_id |-> None, project |-> p,
     forecast_id |-> None, forecast |-> f,
     hasparent |-> IF p = None THEN "None" ELSE "True"]

\* InjectionWell(project=..., forecast=..., scenario=...)
InjectionWellOf(p, f, sc) ==
    [id |-> None, project_id |-> None, project |-> p,
     forecast_id |-> None, forecast |-> f,
     scenario_id |-> None, scenario |-> sc,
     hasparent |-> IF p = None THEN "None" ELSE "True"]

\* The row of an object written by a flush: the foreign keys follow the
\* relationships, the primary key is assigned.
Flushed(obj, i) ==
    [k \in DOMAIN obj |->
        IF k = "id" THEN i
        ELSE IF k = "project_id" THEN obj.project
        ELSE IF k = "forecast_id" THEN obj.forecast
        ELSE IF k = "scenario_id" THEN obj.scenario
        ELSE obj[k]]

\* An object as a query loads it: nothing is known about its parents.
Loaded(obj, i) == [Flushed(obj, i) EXCEPT !.hasparent = "None"]

\* Session(): new are the pending objects, identity_map the persistent
\* ones, modified those with a changed attribute, deleted those marked for
\* deletion, table the rows of the database; swept are the objects the
\* sweep deleted during the last call.
NewSession ==
    [new |-> {}, identity_map |-> {}, modified |-> {}, deleted |-> {}, table |-> {},
     swept |-> {}]

\* The catalogs, the wells and the session as one record.
Database == [catalogs |-> catalogs, wells |-> wells, session |-> session]

HeapOf(s, kind) == IF kind = "SeismicCatalog" THEN s.catalogs ELSE s.wells

ObjectOf(s, ref) == HeapOf(s, ref[1])[ref[2]]

\* session.dirty: the modified persistent objects that are not marked deleted
Session_dirty(s) == s.session.modified \ s.session.deleted

\* session.add(obj) for a new object obj of a kind
Session_add(s0, kind, obj) ==
    With(s0, LAMBDA s :
        LET i == NewIdentity(HeapOf(s, kind))
        IN  [catalogs |-> IF kind = "SeismicCatalog" THEN Store(s.catalogs, i, obj)
                          ELSE s.catalogs,
             wells    |-> IF kind = "InjectionWell" THEN Store(s.wells, i, obj) ELSE s.wells,
             session  |-> [s.session EXCEPT !.new = @ \cup {<<kind, i>>}]])

\* obj.<rel> = value for an object of the session: the backref of
\* Project.well records whether the well still has its parent.
SetOwner(s0, ref, rel, value) ==
    With(s0, LAMBDA s :
        LET obj == [ObjectOf(s, ref) EXCEPT
                       ![rel] = value,
                       !.hasparent = IF rel # "project" THEN @
                                     ELSE IF value = None THEN "False" ELSE "True"]
        IN  [catalogs |-> IF ref[1] = "SeismicCatalog"
                          THEN [s.catalogs EXCEPT ![ref[2]] = obj] ELSE s.catalogs,
             wells    |-> IF ref[1] = "InjectionWell"
                          THEN [s.wells EXCEPT ![ref[2]] = obj] ELSE s.wells,
             session  |-> [s.session EXCEPT
                              !.modified = IF ref \in s.session.identity_map
                                           THEN @ \cup {ref} ELSE @]])

\* delete(session, ctx), the after_flush listener of one entity: the
\* orphans it passes to session.delete.
delete(s, dirty, entity) ==
    IF \E i \in dirty : i[1] = entity
    THEN {r \in s.session.table : r[1] = entity /\ ObjectOf(s, r).project_id = None}
    ELSE {}

\* session.flush(): the pending and dirty objects are written, the objects
\* marked deleted and the dirty wells that lost their project are removed,
\* then the after_flush listeners run and the flush is finalized.
Session_flush(s0) ==
    With(s0, LAMBDA s :
        LET ses == s.session
            dirty == Session_dirty(s)
        IN  IF ses.new = {} /\ ses.modified = {} /\ ses.deleted = {} THEN s
            ELSE LET orphaned == {r \in dirty : /\ r[1] \in DeleteOrphan
                                                /\ ObjectOf(s, r).hasparent = "False"}
                     removed == ses.deleted \cup orphaned
                     written == (ses.new \cup dirty) \ removed
                     Sync(kind) == [i \in DOMAIN HeapOf(s, kind) |->
                                       IF <<kind, i>> \in written
                                       THEN Flushed(HeapOf(s, kind)[i], i)
                                       ELSE HeapOf(s, kind)[i]]
                     table == (ses.table \cup ses.new) \ removed
                     s1 == [catalogs |-> Sync("SeismicCatalog"),
                            wells |-> Sync("InjectionWell"),
                            session |-> [ses EXCEPT !.table = table]]
                     orphans == UNION {delete(s1, dirty, ENTITIES[k]) :
                                          k \in 1..Len(ENTITIES)}
                 IN  [s1 EXCEPT !.session =
                         [new |-> {},
                          identity_map |-> (ses.identity_map \cup ses.new) \ removed,
                          modified |-> {},
                          deleted |-> orphans,
                          table |-> table,
                          swept |-> ses.swept \cup orphans]])

\* session.commit(): flush until the session is clean, then commit.  The
\* second flush finds nothing dirty, so the loop ends.
RECURSIVE Session_commit(_)
Session_commit(s0) ==
    With(s0, LAMBDA s :
        IF s.session.new = {} /\ s.session.modified = {} /\ s.session.deleted = {} THEN s
        ELSE Session_commit(Session_flush(s)))

(***************************************************************************)
(* The state machine of the session: objects are added, their owners are   *)
(* set and unset, the session is flushed and committed.                    *)
(***************************************************************************)
Kinds == {ENTITIES[k] : k \in 1..Len(ENTITIES)}

OwnerValues == {None, 1}

SessionCall(op, self, rel) == [op |-> op, self |-> self, rel |-> rel, raised |-> "none"]

NoRef == <<"NoneType", None>>

\* The objects the session holds.
Held == session.new \cup session.identity_map

\* The call leaves the catalogs, the wells and the session as s.
SessionBecomes(s, op, self, rel) ==
    /\ catalogs' = s.catalogs
    /\ wells' = s.wells
    /\ session' = s.session
    /\ calls' = calls + 1
    /\ last' = SessionCall(op, self, rel)
    /\ before' = Database
    /\ returned' = TheNone
    /\ UNCHANGED seriesvars
    /\ UNCHANGED <<forecast, forecastscenario, forecaststage, modelrun, status>>
    /\ UNCHANGED <<wellsection, attributeevents, registry>>

\* The session as a call finds it: nothing swept so far.
Entering == [Database EXCEPT !.session.swept = {}]

\* session.add(SeismicCatalog(project=p, forecast=f))
SessionAddCatalog(p, f) ==
    /\ calls < MaxCalls
    /\ Cardinality(DOMAIN catalogs) + Cardinality(DOMAIN wells) < MaxObjects
    /\ \E s \in {Session_add(Entering, "SeismicCatalog", SeismicCatalogOf(p, f))} :
           SessionBecomes(s, "Session.add", NoRef, "none")

\* session.add(InjectionWell(project=p, forecast=f, scenario=sc))
SessionAddWell(p, f, sc) ==
    /\ calls < MaxCalls
    /\ Cardinality(DOMAIN catalogs) + Cardinality(DOMAIN wells) < MaxObjects
    /\ \E s \in {Session_add(Entering, "InjectionWell",
                             InjectionWellOf(p, f, sc))} :
           SessionBecomes(s, "Session.add", NoRef, "none")

\* obj.<rel> = None for a set owner, obj.<rel> = owner for an unset one
OwnerAssigned(ref, rel) ==
    /\ calls < MaxCalls
    /\ ref \in Held
    /\ rel \in Owners(ref[1])
    /\ \E s \in {SetOwner(Entering, ref, rel,
                          IF ObjectOf(Database, ref)[rel] = None THEN 1 ELSE None)} :
           SessionBecomes(s, "setattr", ref, rel)

\* session.flush()
SessionFlush ==
    /\ calls < MaxCalls
    /\ \E s \in {Session_flush(Entering)} : SessionBecomes(s, "Session.flush", NoRef, "none")

\* session.commit()
SessionCommit ==
    /\ calls < MaxCalls
    /\ \E s \in {Session_commit(Entering)} : SessionBecomes(s, "Session.commit", NoRef, "none")

NextOrphan ==
    \/ \E p \in OwnerValues, f \in OwnerValues :
           SessionAddCatalog(p, f)
    \/ \E p \in OwnerValues, f \in OwnerValues, sc \in OwnerValues :
           SessionAddWell(p, f, sc)
    \/ \E ref \in Kinds \X (1..MaxObjects), rel \in {"project", "forecast", "scenario"} :
           OwnerAssigned(ref, rel)
    \/ SessionFlush
    \/ SessionCommit

\* The owners of an object of a kind, as <<p, f, sc>>.
OwnerChoices(kind) ==
    {o \in OwnerValues \X OwnerValues \X OwnerValues :
        /\ kind = "SeismicCatalog" => o[3] = None
        /\ \E k \in 1..3 : o[k] # None}

\* A committed session of n catalogs and m wells, each with an owner.
RECURSIVE Populated(_, _)
Populated(cs, ws) ==
    IF cs = <<>> /\ ws = <<>>
    THEN [catalogs |-> <<>>, wells |-> <<>>, session |-> NewSession]
    ELSE IF cs # <<>>
    THEN LET s == Populated(Tail(cs), ws)
             i == NewIdentity(s.catalogs)
         IN  [s EXCEPT !.catalogs = Store(@, i, Loaded(SeismicCatalogOf(Head(cs)[1],
                                                                         Head(cs)[2]), i)),
                       !.session.identity_map = @ \cup {<<"SeismicCatalog", i>>},
                       !.session.table = @ \cup {<<"SeismicCatalog", i>>}]
    ELSE LET s == Populated(cs, Tail(ws))
             i == NewIdentity(s.wells)
         IN  [s EXCEPT !.wells = Store(@, i, Loaded(InjectionWellOf(Head(ws)[1], Head(ws)[2],
                                                                     Head(ws)[3]), i)),
                       !.session.identity_map = @ \cup {<<"InjectionWell", i>>},
                       !.session.table = @ \cup {<<"InjectionWell", i>>}]

SeqsUpTo(S, n) == UNION {[1..k -> S] : k \in 0..n}

InitOrphan ==
    \E cs \in SeqsUpTo(OwnerChoices("SeismicCatalog"), MaxObjects),
       ws \in SeqsUpTo(OwnerChoices("InjectionWell"), MaxObjects) :
        /\ Len(cs) + Len(ws) <= MaxObjects
        /\ \E s \in {Populated(cs, ws)} :
            /\ catalogs = s.catalogs
            /\ wells = s.wells
            /\ session = s.session
            /\ before = s
        /\ forecast = <<>>
        /\ forecastscenario = <<>>
        /\ forecaststage = <<>>
        /\ modelrun = <<>>
        /\ status = <<>>
        /\ wellsection = <<>>
        /\ attributeevents = <<>>
        /\ registry = {}
        /\ events = BuildCatalogs(<<>>, <<>>)
        /\ seismicevent = BuildSeismicEvents(<<>>, <<>>)
        /\ samples = BuildHydraulics(<<>>, <<>>)
        /\ hydraulicsample = BuildHydraulicSamples(<<>>, <<>>)
        /\ calls = 0
        /\ last = SessionCall("init", NoRef, "none")
        /\ returned = TheNone

SpecOrphan == InitOrphan /\ [][NextOrphan]_vars

(***************************************************************************)
(* Claims about the orphan sweep, over SpecOrphan.                         *)
(***************************************************************************)
Flushing == calls > 0 /\ last.op \in {"Session.flush", "Session.commit"}

AllOwnersUnset(s, ref) == \A rel \in Owners(ref[1]) : ObjectOf(s, ref)[rel] = None

\* C22 as stated: the orphan sweep deletes a SeismicCatalog or an
\* InjectionWell only when all of its owner references are unset, never
\* while one of them is still set.
C22_SweepSparesOwned ==
    Flushing => \A ref \in session.swept : AllOwnersUnset(Database, ref)

\* What the sweep does: whatever it deletes has no project.
SweptHaveNoProject ==
    Flushing => \A ref \in session.swept : ObjectOf(Database, ref).project = None

\* A flush swept an object that still has an owner.
SweptOwnedHappened ==
    Flushing /\ \E ref \in session.swept : ~AllOwnersUnset(Database, ref)

\* C23 as stated: after every flush every catalog and every well of the
\* database whose owner references are all unset is scheduled for deletion,
\* whichever objects the flush wrote, so that none is left after a commit.
C23_NoOrphanSurvives ==
    Flushing => \A ref \in session.table : AllOwnersUnset(Database, ref) => ref \in session.deleted

\* What the sweep does: when an object of a kind was dirty in the flush, no
\* object of that kind without project outlives the commit.
NoOrphanOfDirtyKindSurvives ==
    Called("Session.commit") =>
        \A ref \in session.table :
            (\E d \in Session_dirty(before) : d[1] = ref[1]) =>
                ObjectOf(Database, ref).project # None

\* A commit left an object without any owner in the database.
OrphanSurvivedHappened ==
    Called("Session.commit") /\ \E ref \in session.table : AllOwnersUnset(Database, ref)

(***************************************************************************)
(* InjectionWell and WellSection.  A well is named like a series and holds *)
(* the list of its sections; a section refers to its well and to its       *)
(* hydraulics by name.  The creation info is carried by one of its         *)
(* attributes, the columns of a section by topz_value.                     *)
(***************************************************************************)
\* Sections of a well built by Init.
MaxSections == 2

WellSectionMapper ==
    [pk |-> {"id"}, fk |-> {"well_id"}, rel |-> {"well", "hydraulics", "injectionplan"}]

\* _ci_attrs: the attributes of the creation info
ci_attrs == {"creationinfo_creationtime"}

\* The names given to the Hydraulics objects, in the order of creation.
HydraulicsNames == <<"h1", "h2", "h3", "h4", "h5", "h6", "h7", "h8", "h9", "h10", "h11", "h12">>

\* The wells, the sections and the hydraulics as one record.
Boreholes ==
    [wells |-> wells, wellsection |-> wellsection, samples |-> samples,
     hydraulicsample |-> hydraulicsample]

\* InjectionWell()
EmptyInjectionWell ==
    [id |-> None, publicid |-> None, creationinfo_creationtime |-> None,
     altitude_value |-> None, bedrockdepth_value |-> None, sections |-> <<>>]

\* WellSection(publicid=..., starttime=..., endtime=..., ...)
NewWellSection(publicid, starttime, endtime, creationtime) ==
    [id |-> None, publicid |-> publicid, starttime |-> starttime, endtime |-> endtime,
     creationinfo_creationtime |-> creationtime, topz_value |-> 0,
     well_id |-> None, well |-> NoneObj, hydraulics |-> NoneObj, injectionplan |-> NoneObj]

\* bool(hydraulics): None is false, and so is a series without samples,
\* since Hydraulics defines __len__.
Truthy(lists, h) == h # NoneObj /\ lists[h] # <<>>

\* Hydraulics.snapshot, the new series being named snap.
Hydraulics_snapshot_named(lists, heap, self, filter_cond, snap) ==
    IF ~(callable(filter_cond) \/ filter_cond = NoneArg)
    THEN [lists |-> lists, heap |-> heap, raised |-> "AssertionError"]
    ELSE LET cond == IF filter_cond = NoneArg THEN Always ELSE filter_cond
             r == ListOfCopies(lists[self], heap, HydraulicSampleMapper, cond)
         IN  SetCollection(NewSeries(lists, snap), r.heap, snap, "hydraulics", r.new)
             @@ [raised |-> "none"]

\* WellSection.snapshot: the outcome as [s, new, raised].
WellSection_snapshot(s0, self, filter_cond) ==
    With(s0, LAMBDA s :
        LET sec == s.wellsection[self]
            i == NewIdentity(s.wellsection)
            snap == clone(sec, WellSectionMapper, FALSE)
        IN  IF Truthy(s.samples, sec.hydraulics)
            THEN LET h == HydraulicsNames[Cardinality(DOMAIN s.samples) + 1]
                     r == Hydraulics_snapshot_named(s.samples, s.hydraulicsample,
                                                    sec.hydraulics, filter_cond, h)
                 IN  IF r.raised # "none" THEN [s |-> s, new |-> None, raised |-> r.raised]
                     ELSE [s |-> [s EXCEPT !.samples = r.lists,
                                           !.hydraulicsample = r.heap,
                                           !.wellsection =
                                               Store(@, i, [snap EXCEPT !.hydraulics = h])],
                           new |-> i, raised |-> "none"]
            ELSE [s |-> [s EXCEPT !.wellsection = Store(@, i, snap)],
                  new |-> i, raised |-> "none"])

\* MUTABLE_ATTRS of WellSection.merge
WellSection_MUTABLE_ATTRS == ci_attrs \cup {"endtime"}

\* Mutant of WellSection_merge: the sections are merged whatever their
\* publicid.
WellSection_merge_AnyPublicid(s0, self, other) ==
    With(s0, LAMBDA s :
        IF other = None THEN s
        ELSE LET o == s.wellsection[other]
                 sec == [k \in DOMAIN o |-> IF k \in WellSection_MUTABLE_ATTRS THEN o[k]
                                            ELSE s.wellsection[self][k]]
                 s1 == [s EXCEPT !.wellsection[self] = sec]
             IN  IF Truthy(s.samples, sec.hydraulics)
                 THEN LET r == Hydraulics_merge(s.samples, s.hydraulicsample,
                                                sec.hydraulics, o.hydraulics)
                      IN  [s1 EXCEPT !.samples = r.lists, !.hydraulicsample = r.heap]
                 ELSE IF Truthy(s.samples, o.hydraulics)
                 THEN LET h == HydraulicsNames[Cardinality(DOMAIN s.samples) + 1]
                          r == Hydraulics_snapshot_named(s.samples, s.hydraulicsample,
                                                         o.hydraulics, NoneArg, h)
                      IN  [s1 EXCEPT !.samples = r.lists, !.hydraulicsample = r.heap,
                                     !.wellsection[self].hydraulics = h]
                 ELSE s1)

\* WellSection.merge, other being a section or None.
WellSection_merge(s0, self, other) ==
    With(s0, LAMBDA s :
        IF other = None \/ s.wellsection[self].publicid # s.wellsection[other].publicid THEN s
        ELSE LET o == s.wellsection[other]
                 sec == [k \in DOMAIN o |-> IF k \in WellSection_MUTABLE_ATTRS THEN o[k]
                                            ELSE s.wellsection[self][k]]
                 s1 == [s EXCEPT !.wellsection[self] = sec]
             IN  IF Truthy(s.samples, sec.hydraulics)
                 THEN LET r == Hydraulics_merge(s.samples, s.hydraulicsample,
                                                sec.hydraulics, o.hydraulics)
                      IN  [s1 EXCEPT !.samples = r.lists, !.hydraulicsample = r.heap]
                 ELSE IF Truthy(s.samples, o.hydraulics)
                 THEN LET h == HydraulicsNames[Cardinality(DOMAIN s.samples) + 1]
                          r == Hydraulics_snapshot_named(s.samples, s.hydraulicsample,
                                                         o.hydraulics, NoneArg, h)
                      IN  [s1 EXCEPT !.samples = r.lists, !.hydraulicsample = r.heap,
                                     !.wellsection[self].hydraulics = h]
                 ELSE s1)

\* The list lst without its element x.
Without(lst, x) == SelectSeq(lst, LAMBDA y : y # x)

\* well.sections.append(sec): the backref makes well the section's well
\* and takes the section out of the list of the well it had.
AppendSection(s0, well, sec) ==
    With(s0, LAMBDA s :
        LET old == s.wellsection[sec].well
        IN  [s EXCEPT !.wellsection[sec].well = well,
                      !.wells = [w \in DOMAIN s.wells |->
                                    IF w = well
                                    THEN [s.wells[w] EXCEPT !.sections = Append(@, sec)]
                                    ELSE IF w = old
                                    THEN [s.wells[w] EXCEPT !.sections = Without(@, sec)]
                                    ELSE s.wells[w]]])

\* well.sections = []: the sections of the well lose their well.
ClearSections(s0, well) ==
    With(s0, LAMBDA s :
        [s EXCEPT !.wells[well].sections = <<>>,
                  !.wellsection = [i \in DOMAIN s.wellsection |->
                                      IF i \in Range(s.wells[well].sections)
                                      THEN [s.wellsection[i] EXCEPT !.well = NoneObj]
                                      ELSE s.wellsection[i]]])

\* section_lookup_by_publicid: the first section of self with the publicid
section_lookup_by_publicid(s, self, publicid) ==
    LET sections == s.wells[self].sections
        hits == {k \in 1..Len(sections) : s.wellsection[sections[k]].publicid = publicid}
    IN  IF hits = {} THEN None ELSE sections[SetMin(hits)]

\* The loop "for sec in other.sections" of the wells with one publicid,
\* over the sections src of other still to visit.
RECURSIVE InjectionWell_merge_sections(_, _, _)
InjectionWell_merge_sections(s0, self, src) ==
    With(s0, LAMBDA s :
        IF src = <<>> THEN s
        ELSE LET sec == Head(src)
                 found == section_lookup_by_publicid(s, self, s.wellsection[sec].publicid)
             IN  IF found = None
                 THEN LET r == WellSection_snapshot(s, sec, NoneArg)
                      IN  InjectionWell_merge_sections(AppendSection(r.s, self, r.new),
                                                       self, Tail(src))
                 ELSE InjectionWell_merge_sections(WellSection_merge(s, found, sec),
                                                   self, Tail(src)))

\* The loop "for sec in other.sections: self.sections.append(sec)", the
\* iterator standing at index k of the list as it is now.
RECURSIVE InjectionWell_merge_move(_, _, _, _)
InjectionWell_merge_move(s0, self, other, k) ==
    With(s0, LAMBDA s :
        IF k > Len(s.wells[other].sections) THEN s
        ELSE InjectionWell_merge_move(AppendSection(s, self, s.wells[other].sections[k]),
                                      self, other, k + 1))

\* Mutant of InjectionWell_merge: wells of one publicid keep their
\* creation info, and sections without a match are not appended.
InjectionWell_merge_MatchingOnly(s0, self, other, merge_undefined) ==
    With(s0, LAMBDA s :
        IF s.wells[self].publicid = s.wells[other].publicid
        THEN InjectionWell_merge_sections(
                 s, self,
                 SelectSeq(s.wells[other].sections,
                           LAMBDA sec : section_lookup_by_publicid(
                                            s, self, s.wellsection[sec].publicid) # None))
        ELSE IF merge_undefined /\ s.wells[self].publicid = None
        THEN InjectionWell_merge_move(
                 ClearSections([s EXCEPT !.wells[self].publicid = s.wells[other].publicid],
                               self),
                 self, other, 1)
        ELSE s)

\* InjectionWell.merge
InjectionWell_merge(s0, self, other, merge_undefined) ==
    With(s0, LAMBDA s :
        IF s.wells[self].publicid = s.wells[other].publicid
        THEN InjectionWell_merge_sections(
                 [s EXCEPT !.wells[self] =
                     [k \in DOMAIN @ |-> IF k \in ci_attrs THEN s.wells[other][k] ELSE @[k]]],
                 self, s.wells[other].sections)
        ELSE IF merge_undefined /\ s.wells[self].publicid = None
        THEN InjectionWell_merge_move(
                 ClearSections([s EXCEPT !.wells[self].publicid = s.wells[other].publicid],
                               self),
                 self, other, 1)
        ELSE s)

\* lambda s: s.publicid == p, a section_filter_cond
PublicidIs(p) == [type |-> "function", fn |-> "publicid_is", a |-> p, b |-> None]

\* filter(section_filter_cond, sections): None keeps what is true, and
\* every section is.
FilterSections(s, sections, section_filter_cond) ==
    IF section_filter_cond = NoneArg THEN sections
    ELSE SelectSeq(sections, LAMBDA sec :
             IF section_filter_cond.fn = "publicid_is"
             THEN s.wellsection[sec].publicid = section_filter_cond.a
             ELSE TRUE)

\* The comprehension [s.snapshot(filter_cond=sample_filter_cond) for s in
\* ...] over the sections src: the outcome as [s, new, raised].
RECURSIVE SnapshotsOf(_, _, _)
SnapshotsOf(s0, src, sample_filter_cond) ==
    With(s0, LAMBDA s :
        IF src = <<>> THEN [s |-> s, new |-> <<>>, raised |-> "none"]
        ELSE LET r == WellSection_snapshot(s, Head(src), sample_filter_cond)
             IN  IF r.raised # "none" THEN [s |-> s, new |-> <<>>, raised |-> r.raised]
                 ELSE LET rest == SnapshotsOf(r.s, Tail(src), sample_filter_cond)
                      IN  IF rest.raised # "none" THEN rest
                          ELSE [rest EXCEPT !.new = <<r.new>> \o @])

\* well.sections = new_list for a well without sections
SetSections(s0, well, new_list) ==
    With(s0, LAMBDA s :
        [s EXCEPT !.wells[well].sections = new_list,
                  !.wellsection = [i \in DOMAIN s.wellsection |->
                                      IF i \in Range(new_list)
                                      THEN [s.wellsection[i] EXCEPT !.well = well]
                                      ELSE s.wellsection[i]]])

\* InjectionWell.snapshot, the new well being named snap: the outcome as
\* [s, raised].
InjectionWell_snapshot(s0, self, section_filter_cond, sample_filter_cond, snap) ==
    With(s0, LAMBDA s :
        LET well == s.wells[self]
            new == [EmptyInjectionWell EXCEPT !.publicid = well.publicid,
                                              !.altitude_value = well.altitude_value,
                                              !.bedrockdepth_value = well.bedrockdepth_value]
            s1 == [s EXCEPT !.wells = [w \in DOMAIN s.wells \cup {snap} |->
                                          IF w = snap THEN new ELSE s.wells[w]]]
        IN  IF well.sections = <<>> THEN [s |-> s1, raised |-> "none"]
            ELSE LET r == SnapshotsOf(s1, FilterSections(s, well.sections, section_filter_cond),
                                      sample_filter_cond)
                 IN  IF r.raised # "none" THEN [s |-> s, raised |-> r.raised]
                     ELSE [s |-> SetSections(r.s, snap, r.new), raised |-> "none"])

(***************************************************************************)
(* Construction of wells and sections, as the test fixtures build them:    *)
(* nothing is persisted.  Sample i of a series carries i - 1 as payload.   *)
(***************************************************************************)
NoBoreholes == [wells |-> <<>>, wellsection |-> <<>>, samples |-> <<>>, hydraulicsample |-> <<>>]

\* Hydraulics(samples=[HydraulicSample(datetime_value=ts[i], ...), ...])
RECURSIVE WithSamples(_, _, _, _)
WithSamples(lists, heap, h, ts) ==
    IF ts = <<>> THEN [lists |-> lists, heap |-> heap]
    ELSE LET r == AppendNew(lists, heap, h, "hydraulics",
                            [NewHydraulicSample(None, Head(ts), Len(lists[h]), h)
                                EXCEPT !.hydraulics_id = None])
         IN  WithSamples(r.lists, r.heap, h, Tail(ts))

\* The hydraulics of a section: none, or a series with samples at ts.
NoHydraulics == [has |-> FALSE, ts |-> <<>>]

HydraulicsAt(ts) == [has |-> TRUE, ts |-> ts]

\* WellSection(..., hydraulics=hyd), appended to well unless that is None.
AddSection(s0, well, section, hyd) ==
    With(s0, LAMBDA s :
        LET i == NewIdentity(s.wellsection)
            h == HydraulicsNames[Cardinality(DOMAIN s.samples) + 1]
            r == WithSamples(NewSeries(s.samples, h), s.hydraulicsample, h, hyd.ts)
            s1 == IF hyd.has
                  THEN [s EXCEPT !.samples = r.lists, !.hydraulicsample = r.heap,
                                 !.wellsection = Store(@, i, [section EXCEPT !.hydraulics = h])]
                  ELSE [s EXCEPT !.wellsection = Store(@, i, section)]
        IN  IF well = NoneObj THEN s1 ELSE AppendSection(s1, well, i))

(***************************************************************************)
(* The state machine of two well sections: section 1 merges section 2 or   *)
(* None.  Section 2 differs from section 1 in every mutable attribute.     *)
(***************************************************************************)
SectionCall(op, self, other) == [op |-> op, self |-> self, other |-> other, raised |-> "none"]

PublicIds == {1, 2}

HydraulicsShapes == {NoHydraulics} \cup {HydraulicsAt(ts) : ts \in TimeLists}

\* The wells, sections and hydraulics become those of s.
BoreholesBecome(s) ==
    /\ wells' = s.wells
    /\ wellsection' = s.wellsection
    /\ samples' = s.samples
    /\ hydraulicsample' = s.hydraulicsample
    /\ calls' = calls + 1
    /\ before' = Boreholes
    /\ UNCHANGED <<events, seismicevent>>
    /\ UNCHANGED <<forecast, forecastscenario, forecaststage, modelrun, status, catalogs>>
    /\ UNCHANGED <<session, attributeevents, registry>>

\* Section 1 and section 2 exist, and nothing else.
BoreholesAre(s) ==
    /\ wells = s.wells
    /\ wellsection = s.wellsection
    /\ samples = s.samples
    /\ hydraulicsample = s.hydraulicsample
    /\ before = s
    /\ events = <<>>
    /\ seismicevent = <<>>
    /\ forecast = <<>>
    /\ forecastscenario = <<>>
    /\ forecaststage = <<>>
    /\ modelrun = <<>>
    /\ status = <<>>
    /\ catalogs = <<>>
    /\ session = <<>>
    /\ attributeevents = <<>>
    /\ registry = {}
    /\ calls = 0
    /\ returned = TheNone

\* wellsection[1].merge(other)
WellSectionMerge(other) ==
    /\ calls = 0
    /\ \E s \in {WellSection_merge(Boreholes, 1, other)} : BoreholesBecome(s)
    /\ last' = SectionCall("WellSection.merge", 1, other)
    /\ returned' = TheNone

NextSection == \E other \in {2, None} : WellSectionMerge(other)

InitSection ==
    \E p0 \in PublicIds, p1 \in PublicIds, h0 \in HydraulicsShapes, h1 \in HydraulicsShapes :
        /\ BoreholesAre(AddSection(AddSection(NoBoreholes, NoneObj,
                                              NewWellSection(p0, 1, None, 1), h0),
                                   NoneObj, NewWellSection(p1, 2, 2, 2), h1))
        /\ last = SectionCall("init", None, None)

SpecSection == InitSection /\ [][NextSection]_vars

(***************************************************************************)
(* Claims about WellSection.merge, over SpecSection.                       *)
(***************************************************************************)
\* The samples of a section's hydraulics in the state s; none without series.
SamplesOf(s, sec) ==
    IF s.wellsection[sec].hydraulics = NoneObj THEN <<>>
    ELSE s.samples[s.wellsection[sec].hydraulics]

SampleTimes(s, lst) == {s.hydraulicsample[x].datetime_value : x \in Range(lst)}

\* lst holds new samples that are copies of those of src as they were.
CopiesOfBefore(lst, src) ==
    /\ Len(lst) = Len(src)
    /\ \A k \in 1..Len(lst) :
           /\ lst[k] \notin DOMAIN before.hydraulicsample
           /\ ColumnsEqual(hydraulicsample[lst[k]], before.hydraulicsample[src[k]],
                           HydraulicSampleMapper)

\* The time ranges of two lists of samples of the state before are disjoint.
DisjointRanges(a, b) ==
    \/ SetMax(SampleTimes(before, a)) < SetMin(SampleTimes(before, b))
    \/ SetMax(SampleTimes(before, b)) < SetMin(SampleTimes(before, a))

\* C26: WellSection.merge(other) with equal publicid gives self the endtime
\* and the creation info of other and keeps its starttime; self's samples
\* are unchanged when other has none, are new copies of other's when self
\* has none, and are its own followed by copies of other's when the time
\* ranges are disjoint.  With a different publicid, or other None, self is
\* unchanged.
C26_SectionMerge ==
    Called("WellSection.merge") =>
        LET self0 == before.wellsection[1]
            n0 == SamplesOf(before, 1)
            now == SamplesOf(Boreholes, 1)
        IN  IF last.other # None /\ self0.publicid = before.wellsection[last.other].publicid
            THEN LET other == before.wellsection[last.other]
                     n1 == SamplesOf(before, last.other)
                 IN  /\ wellsection[1].endtime = other.endtime
                     /\ \A attr \in ci_attrs : wellsection[1][attr] = other[attr]
                     /\ wellsection[1].starttime = self0.starttime
                     /\ wellsection[last.other] = other
                     /\ SamplesOf(Boreholes, last.other) = n1
                     /\ n1 = <<>> => /\ now = n0
                                     /\ \A x \in Range(n0) :
                                            hydraulicsample[x] = before.hydraulicsample[x]
                     /\ (n0 = <<>> /\ n1 # <<>>) => CopiesOfBefore(now, n1)
                     /\ (n0 # <<>> /\ n1 # <<>> /\ DisjointRanges(n0, n1)) =>
                            /\ Len(now) = Len(n0) + Len(n1)
                            /\ SubSeq(now, 1, Len(n0)) = n0
                            /\ CopiesOfBefore(SubSeq(now, Len(n0) + 1, Len(now)), n1)
            ELSE Boreholes = before

\* Sections of one publicid with samples in disjoint time ranges were merged.
C26_Witness ==
    /\ Called("WellSection.merge")
    /\ last.other = 2
    /\ before.wellsection[1].publicid = before.wellsection[2].publicid
    /\ SamplesOf(before, 1) # <<>>
    /\ SamplesOf(before, 2) # <<>>
    /\ DisjointRanges(SamplesOf(before, 1), SamplesOf(before, 2))
    /\ Len(SamplesOf(Boreholes, 1)) = Len(SamplesOf(before, 1)) + Len(SamplesOf(before, 2))

(***************************************************************************)
(* The state machine of two wells: bh0 merges bh1, or a snapshot of bh0    *)
(* is taken.  The sections of bh1 differ from those of bh0 in every        *)
(* mutable attribute.                                                      *)
(***************************************************************************)
WellCall(op, merge_undefined, section_filter_cond, sample_filter_cond) ==
    [op |-> op, merge_undefined |-> merge_undefined,
     section_filter_cond |-> section_filter_cond,
     sample_filter_cond |-> sample_filter_cond, raised |-> "none"]

\* InjectionWell(publicid=..., creationinfo_creationtime=..., ...)
NewInjectionWellOf(publicid, creationtime) ==
    [EmptyInjectionWell EXCEPT !.publicid = publicid,
                               !.creationinfo_creationtime = creationtime,
                               !.altitude_value = creationtime,
                               !.bedrockdepth_value = creationtime]

\* The sections of a well as Init draws them: publicid and hydraulics.
SectionShapes(hyds) == [publicid : PublicIds, hyd : hyds]

\* The sections described by shapes, appended to well one by one.
RECURSIVE WithSections(_, _, _, _)
WithSections(s0, well, shapes, t) ==
    With(s0, LAMBDA s :
        IF shapes = <<>> THEN s
        ELSE WithSections(AddSection(s, well,
                                     NewWellSection(Head(shapes).publicid, t,
                                                    IF t = 1 THEN None ELSE t, t),
                                     Head(shapes).hyd),
                          well, Tail(shapes), t))

\* bh0.merge(bh1, merge_undefined)
InjectionWellMerge(merge_undefined) ==
    /\ calls = 0
    /\ \E s \in {InjectionWell_merge(Boreholes, "bh0", "bh1", merge_undefined)} :
           BoreholesBecome(s)
    /\ last' = WellCall("InjectionWell.merge", merge_undefined, NoneArg, NoneArg)
    /\ returned' = TheNone

\* returned = bh0.snapshot(section_filter_cond, sample_filter_cond)
InjectionWellSnapshot(section_filter_cond, sample_filter_cond) ==
    /\ calls = 0
    /\ \E r \in {InjectionWell_snapshot(Boreholes, "bh0", section_filter_cond,
                                        sample_filter_cond, "snap")} :
           /\ r.raised = "none"
           /\ BoreholesBecome(r.s)
    /\ last' = WellCall("InjectionWell.snapshot", FALSE, section_filter_cond,
                        sample_filter_cond)
    /\ returned' = Operand("InjectionWell", "snap", None, "object")

NextWell ==
    \/ \E merge_undefined \in BOOLEAN : InjectionWellMerge(merge_undefined)
    \/ \E section_filter_cond \in {NoneArg, PublicidIs(1)},
          sample_filter_cond \in {NoneArg, At(1)} :
           InjectionWellSnapshot(section_filter_cond, sample_filter_cond)

InitWell ==
    \E p0 \in {None, 1}, p1 \in PublicIds,
       s0 \in SeqsUpTo(SectionShapes({NoHydraulics, HydraulicsAt(<<>>), HydraulicsAt(<<1, 2>>)}),
                       MaxSections),
       s1 \in SeqsUpTo(SectionShapes({NoHydraulics, HydraulicsAt(<<3>>)}), MaxSections) :
        /\ p0 = None => p1 = 1
        /\ BoreholesAre(
               WithSections(
                   WithSections([NoBoreholes EXCEPT !.wells =
                                    [w \in {"bh0", "bh1"} |->
                                        IF w = "bh0" THEN NewInjectionWellOf(p0, 1)
                                        ELSE NewInjectionWellOf(p1, 2)]],
                                "bh0", s0, 1),
                   "bh1", s1, 2))
        /\ last = WellCall("init", FALSE, NoneArg, NoneArg)

SpecWell == InitWell /\ [][NextWell]_vars

(***************************************************************************)
(* Claims about InjectionWell.merge and InjectionWell.snapshot, over       *)
(* SpecWell.                                                               *)
(***************************************************************************)
Self0 == before.wells["bh0"].sections

Other0 == before.wells["bh1"].sections

PublicIdsOf(s, lst) == {s.wellsection[x].publicid : x \in Range(lst)}

\* Index of the first section of lst with publicid p, in the state before.
FirstWith(lst, p) == SetMin({k \in 1..Len(lst) : before.wellsection[lst[k]].publicid = p})

\* Everything that existed before the call is as it was.
OriginalsUnchanged ==
    /\ \A w \in DOMAIN before.wells : wells[w] = before.wells[w]
    /\ \A x \in DOMAIN before.wellsection : wellsection[x] = before.wellsection[x]
    /\ \A h \in DOMAIN before.samples : samples[h] = before.samples[h]
    /\ \A x \in DOMAIN before.hydraulicsample : hydraulicsample[x] = before.hydraulicsample[x]

\* Section a is a new section; its columns are those section x had.
SectionCopy(a, x) ==
    /\ a \notin DOMAIN before.wellsection
    /\ ColumnsEqual(wellsection[a], before.wellsection[x], WellSectionMapper)
    /\ wellsection[a].id = None

C25_MergeUndefinedMovesAll ==
    (Called("InjectionWell.merge") /\ before.wells["bh0"].publicid = None) =>
        IF last.merge_undefined
        THEN /\ wells["bh0"].publicid = before.wells["bh1"].publicid
             /\ wells["bh0"].sections = Other0
             /\ wells["bh1"].sections = <<>>
             /\ \A x \in Range(Other0) : wellsection[x].well = "bh0"
             /\ \A x \in Range(Self0) : wellsection[x].well = NoneObj
        ELSE Boreholes = before

\* The elements of lst at the odd positions.
OddOf(lst) == [k \in 1..((Len(lst) + 1) \div 2) |-> lst[2 * k - 1]]

\* The elements of lst at the even positions.
EvenOf(lst) == [k \in 1..(Len(lst) \div 2) |-> lst[2 * k]]

\* What the merge into a well without publicid does: every second section
\* of other is moved, the others stay with other.
MergeUndefinedAsCoded ==
    (Called("InjectionWell.merge") /\ before.wells["bh0"].publicid = None) =>
        IF last.merge_undefined
        THEN /\ wells["bh0"].publicid = before.wells["bh1"].publicid
             /\ wells["bh0"].sections = OddOf(Other0)
             /\ wells["bh1"].sections = EvenOf(Other0)
             /\ \A x \in Range(Self0) : wellsection[x].well = NoneObj
        ELSE Boreholes = before

\* A well with two sections was merged into a well without publicid.
MergeUndefinedHappened ==
    /\ Called("InjectionWell.merge")
    /\ before.wells["bh0"].publicid = None
    /\ last.merge_undefined
    /\ Len(Other0) = 2
    /\ wells["bh1"].sections # <<>>

\* The sections of bh0 the last snapshot had to retain.
Retained == FilterSections(before, Self0, last.section_filter_cond)

\* The sample filter of the last snapshot as a callable.
SampleCond == IF last.sample_filter_cond = NoneArg THEN Always ELSE last.sample_filter_cond

\* Section a carries a new series with copies of the samples of section x
\* that satisfy the sample filter.
CarriesSnapshotOf(a, x) ==
    /\ wellsection[a].hydraulics # NoneObj
    /\ wellsection[a].hydraulics \notin DOMAIN before.samples
    /\ LET kept == SelectSeq(SamplesOf(before, x),
                             LAMBDA y : Call(SampleCond, before.hydraulicsample[y]))
       IN  CopiesOfBefore(SamplesOf(Boreholes, a), kept)

\* C27 as stated: InjectionWell.snapshot returns a new well with the
\* publicid of the original whose sections are new copies of exactly the
\* sections that satisfy section_filter_cond; the copy of every retained
\* section that has a hydraulics series, also one without samples, carries
\* a new series with the samples that satisfy sample_filter_cond.  The
\* original is unchanged.
C27_WellSnapshot ==
    Called("InjectionWell.snapshot") =>
        LET snap == wells["snap"].sections
        IN  /\ "snap" \notin DOMAIN before.wells
            /\ wells["snap"].publicid = before.wells["bh0"].publicid
            /\ Len(snap) = Len(Retained)
            /\ \A k \in 1..Len(snap) :
                   /\ SectionCopy(snap[k], Retained[k])
                   /\ wellsection[snap[k]].well = "snap"
                   /\ before.wellsection[Retained[k]].hydraulics # NoneObj =>
                          CarriesSnapshotOf(snap[k], Retained[k])
            /\ OriginalsUnchanged

\* What the snapshot does: the copy of a section carries a series when the
\* original's series has samples, and none otherwise.
WellSnapshotAsCoded ==
    Called("InjectionWell.snapshot") =>
        LET snap == wells["snap"].sections
        IN  /\ "snap" \notin DOMAIN before.wells
            /\ wells["snap"].publicid = before.wells["bh0"].publicid
            /\ Len(snap) = Len(Retained)
            /\ \A k \in 1..Len(snap) :
                   /\ SectionCopy(snap[k], Retained[k])
                   /\ wellsection[snap[k]].well = "snap"
                   /\ IF SamplesOf(before, Retained[k]) # <<>>
                      THEN CarriesSnapshotOf(snap[k], Retained[k])
                      ELSE wellsection[snap[k]].hydraulics = NoneObj
            /\ OriginalsUnchanged

\* A snapshot retained a section whose series has no samples.
EmptySeriesSnapshotHappened ==
    /\ Called("InjectionWell.snapshot")
    /\ \E k \in 1..Len(Retained) :
           /\ before.wellsection[Retained[k]].hydraulics # NoneObj
           /\ SamplesOf(before, Retained[k]) = <<>>
           /\ wellsection[wells["snap"].sections[k]].hydraulics = NoneObj

(***************************************************************************)
(* AttributeEvents over SeismicCatalog.  The registry holds what           *)
(* sqlalchemy.event has registered: triples of target, identifier and      *)
(* listener.  A set of targets that is None is the empty set: the code     *)
(* only tests it for truth.                                                *)
(***************************************************************************)
\* Identifiers an AttributeEvents object is configured with, per kind.
MaxIdentifiers == 2

\* _SCALAR_EVENT_IDENTIFIERS
SCALAR_EVENT_IDENTIFIERS == <<"set", "modified", "init_scalar">>

\* _COLLECTION_EVENT_IDENTIFIERS
COLLECTION_EVENT_IDENTIFIERS ==
    <<"append", "bulk_replace", "dispose_collection", "init_collection", "remove">>

\* class_mapper(SeismicCatalog): its properties by kind
SeismicCatalogMapper ==
    [pk |-> {"id"}, fk |-> {"project_id", "forecast_id"},
     rel |-> {"project", "forecast", "events"},
     columns |-> {"id", "creationinfo_creationtime", "project_id", "forecast_id"}]

iterate_properties(mapper) == mapper.columns \cup mapper.rel

\* The relationships of SeismicCatalog that hold a collection.
CollectionAttributes == {"events"}

\* create_scalar_attribute_events for a mapped class: the registry with
\* the listener on every property that is neither relationship nor
\* foreign key, and the expanded targets.
create_scalar_attribute_events(reg, mapper, listener, identifiers) ==
    LET omit == mapper.rel \cup mapper.fk
        expanded_targets == {p \in iterate_properties(mapper) : p \notin omit}
    IN  [registry |-> reg \cup {<<t, identifiers[k], listener>> :
                                   t \in expanded_targets, k \in 1..Len(identifiers)},
         targets |-> expanded_targets]

\* create_collection_attribute_events for a mapped class: the listener on
\* every relationship.
create_collection_attribute_events(reg, mapper, listener, identifiers) ==
    LET expanded_targets == {p \in iterate_properties(mapper) : p \in mapper.rel}
    IN  [registry |-> reg \cup {<<t, identifiers[k], listener>> :
                                   t \in expanded_targets, k \in 1..Len(identifiers)},
         targets |-> expanded_targets]

\* SeismicCatalogAttributeEvents(listener, scalar_identifiers,
\* collection_identifiers)
NewAttributeEvents(listener, scalar_identifiers, collection_identifiers) ==
    [_listener |-> listener,
     _scalar_identifiers |-> scalar_identifiers, _scalar_targets |-> {},
     _collection_identifiers |-> collection_identifiers, _collection_targets |-> {}]

\* The AttributeEvents object and the registry as one record.
Listening == [self |-> attributeevents, registry |-> registry]

\* AttributeEvents.listen: the outcome as [self, registry, raised].
AttributeEvents_listen(s0, arg) ==
    With(s0, LAMBDA s :
        LET listener == IF arg = NoneObj THEN s.self._listener ELSE arg
        IN  IF listener = NoneObj THEN s @@ [raised |-> "ValueError"]
            ELSE LET sc == IF s.self._scalar_identifiers # <<>>
                           THEN create_scalar_attribute_events(
                                    s.registry, SeismicCatalogMapper, listener,
                                    s.self._scalar_identifiers)
                           ELSE [registry |-> s.registry, targets |-> s.self._scalar_targets]
                     co == IF s.self._collection_identifiers # <<>>
                           THEN create_collection_attribute_events(
                                    sc.registry, SeismicCatalogMapper, listener,
                                    s.self._collection_identifiers)
                           ELSE [registry |-> sc.registry,
                                 targets |-> s.self._collection_targets]
                 IN  [self |-> [s.self EXCEPT !._scalar_targets = sc.targets,
                                              !._collection_targets = co.targets],
                      registry |-> co.registry, raised |-> "none"])

\* The loop "for identifier in identifiers: event.remove(target,
\* identifier, self._listener); targets.remove(target)" over the
\* identifiers still to visit: the outcome as [registry, targets, raised].
RECURSIVE remove_target(_, _, _, _, _)
remove_target(reg, targets, target, listener, identifiers) ==
    IF identifiers = <<>> THEN [registry |-> reg, targets |-> targets, raised |-> "none"]
    ELSE IF <<target, Head(identifiers), listener>> \notin reg
    THEN [registry |-> reg, targets |-> targets, raised |-> "InvalidRequestError"]
    ELSE IF target \notin targets
    THEN [registry |-> reg \ {<<target, Head(identifiers), listener>>},
          targets |-> targets, raised |-> "KeyError"]
    ELSE remove_target(reg \ {<<target, Head(identifiers), listener>>},
                       targets \ {target}, target, listener, Tail(identifiers))

\* The loop "for t, i in product(targets, identifiers): event.remove(t, i,
\* self._listener)" followed by "targets = None".  Either every pair is
\* registered with the listener or none is.
remove_all(reg, targets, listener, identifiers) ==
    LET pairs == {<<t, identifiers[k], listener>> : t \in targets, k \in 1..Len(identifiers)}
    IN  IF pairs \subseteq reg
        THEN [registry |-> reg \ pairs, targets |-> {}, raised |-> "none"]
        ELSE [registry |-> reg, targets |-> targets, raised |-> "InvalidRequestError"]

\* AttributeEvents.remove: the outcome as [self, registry, raised].
AttributeEvents_remove(s0, target) ==
    With(s0, LAMBDA s :
        IF target \in s.self._scalar_targets
        THEN LET r == remove_target(s.registry, s.self._scalar_targets, target,
                                    s.self._listener, s.self._scalar_identifiers)
             IN  [self |-> [s.self EXCEPT !._scalar_targets = r.targets],
                  registry |-> r.registry, raised |-> r.raised]
        ELSE IF target \in s.self._collection_targets
        THEN LET r == remove_target(s.registry, s.self._collection_targets, target,
                                    s.self._listener, s.self._collection_identifiers)
             IN  [self |-> [s.self EXCEPT !._collection_targets = r.targets],
                  registry |-> r.registry, raised |-> r.raised]
        ELSE LET sc == remove_all(s.registry, s.self._scalar_targets, s.self._listener,
                                  s.self._scalar_identifiers)
                 co == remove_all(sc.registry, s.self._collection_targets, s.self._listener,
                                  s.self._collection_identifiers)
             IN  IF sc.raised # "none"
                 THEN [self |-> s.self, registry |-> sc.registry, raised |-> sc.raised]
                 ELSE [self |-> [s.self EXCEPT !._scalar_targets = sc.targets,
                                               !._collection_targets = co.targets],
                       registry |-> co.registry, raised |-> co.raised])

\* AttributeEvents.contains
AttributeEvents_contains(self, target, identifier) ==
    \/ /\ target \in self._scalar_targets
       /\ identifier \in Range(self._scalar_identifiers)
    \/ /\ target \in self._collection_targets
       /\ identifier \in Range(self._collection_identifiers)

(***************************************************************************)
(* The state machine of one AttributeEvents object: listen and remove are  *)
(* called, and attribute events of a catalog occur in between.             *)
(***************************************************************************)
Listeners == {"f", "g"}

Properties == iterate_properties(SeismicCatalogMapper)

\* The identifiers of the events that occur on an attribute.
IdentifiersOn(attr) ==
    IF attr \in CollectionAttributes THEN Range(COLLECTION_EVENT_IDENTIFIERS)
    ELSE Range(SCALAR_EVENT_IDENTIFIERS)

EventsCall(op, arg, raised) == [op |-> op, arg |-> arg, raised |-> raised]

\* The event of an attribute and the listeners it invoked.
Emitted(attr, identifier, invoked) ==
    [attr |-> attr, identifier |-> identifier, invoked |-> invoked]

NothingEmitted == Emitted(NoneObj, NoneObj, {})

\* The call leaves the object and the registry as r.
ListeningBecomes(r, op, arg) ==
    /\ attributeevents' = r.self
    /\ registry' = r.registry
    /\ calls' = calls + 1
    /\ last' = EventsCall(op, arg, r.raised)
    /\ before' = Listening
    /\ returned' = NothingEmitted
    /\ UNCHANGED seriesvars
    /\ UNCHANGED forecastvars
    /\ UNCHANGED <<session, wellsection>>

\* events.listen(listener)
AttributeEventsListen(listener) ==
    /\ calls < MaxCalls
    /\ registry = {}
    /\ \E r \in {AttributeEvents_listen(Listening, listener)} :
           ListeningBecomes(r, "AttributeEvents.listen", listener)

\* events.remove(target)
AttributeEventsRemove(target) ==
    /\ calls < MaxCalls
    /\ \E r \in {AttributeEvents_remove(Listening, target)} :
           ListeningBecomes(r, "AttributeEvents.remove", target)

\* The event identifier occurs on the attribute attr of a catalog: the
\* listeners registered for it are invoked.
AttributeEvent(attr, identifier) ==
    /\ calls > 0
    /\ identifier \in IdentifiersOn(attr)
    /\ returned' = Emitted(attr, identifier,
                           {l \in Listeners : <<attr, identifier, l>> \in registry})
    /\ UNCHANGED <<attributeevents, registry, calls, last, before>>
    /\ UNCHANGED seriesvars
    /\ UNCHANGED forecastvars
    /\ UNCHANGED <<session, wellsection>>

NextEvents ==
    \/ \E listener \in Listeners \cup {NoneObj} : AttributeEventsListen(listener)
    \/ \E target \in Properties \cup {NoneObj} : AttributeEventsRemove(target)
    \/ \E attr \in Properties,
          identifier \in Range(SCALAR_EVENT_IDENTIFIERS) \cup Range(COLLECTION_EVENT_IDENTIFIERS) :
           AttributeEvent(attr, identifier)

InitEvents ==
    \E listener \in {NoneObj, "f"}, n \in 0..MaxIdentifiers, m \in 0..MaxIdentifiers :
        /\ attributeevents = NewAttributeEvents(listener,
                                                SubSeq(SCALAR_EVENT_IDENTIFIERS, 1, n),
                                                SubSeq(COLLECTION_EVENT_IDENTIFIERS, 1, m))
        /\ registry = {}
        /\ session = <<>>
        /\ wellsection = <<>>
        /\ NoForecast
        /\ events = <<>>
        /\ seismicevent = <<>>
        /\ samples = <<>>
        /\ hydraulicsample = <<>>
        /\ calls = 0
        /\ last = EventsCall("init", NoneObj, "none")
        /\ before = [self |-> attributeevents, registry |-> {}]
        /\ returned = NothingEmitted

SpecEvents == InitEvents /\ [][NextEvents]_vars

(***************************************************************************)
(* Claims about AttributeEvents, over SpecEvents.                          *)
(***************************************************************************)
\* The identifiers an object is configured with for the kind of attr.
ConfiguredFor(self, attr) ==
    IF attr \in CollectionAttributes THEN Range(self._collection_identifiers)
    ELSE Range(self._scalar_identifiers)

\* The listener the last listen registered.
Registered == IF last.arg = NoneObj THEN attributeevents._listener ELSE last.arg

Listened == Called("AttributeEvents.listen") /\ last.raised = "none"

AnEventOccurred == returned.attr # NoneObj

AllIdentifiers == Range(SCALAR_EVENT_IDENTIFIERS) \cup Range(COLLECTION_EVENT_IDENTIFIERS)

\* C28 as stated: after listen() the listener is invoked on every scalar
\* and every collection attribute event of the target class whose
\* identifier is configured for that kind, and on no other; after a
\* following remove() without target it is not invoked any more and
\* contains(target, identifier) is false for every target and identifier.
C28_ListenThenRemove ==
    /\ (Listened /\ AnEventOccurred) =>
           (Registered \in returned.invoked <=>
                returned.identifier \in ConfiguredFor(attributeevents, returned.attr))
    /\ (Called("AttributeEvents.remove") /\ last.arg = NoneObj) =>
           /\ returned.invoked = {}
           /\ \A t \in Properties, i \in AllIdentifiers :
                  ~AttributeEvents_contains(attributeevents, t, i)

\* What listen and remove do: the listener is invoked for the columns that
\* are no foreign key on the scalar identifiers, and for the collections on
\* the collection identifiers; a remove() that does not raise leaves
\* nothing registered.
ListenThenRemoveAsCoded ==
    /\ (Listened /\ AnEventOccurred) =>
           (Registered \in returned.invoked <=>
                /\ returned.identifier \in ConfiguredFor(attributeevents, returned.attr)
                /\ returned.attr \notin SeismicCatalogMapper.fk
                /\ returned.attr \in SeismicCatalogMapper.rel =>
                       returned.attr \in CollectionAttributes)
    /\ (Called("AttributeEvents.remove") /\ last.arg = NoneObj /\ last.raised = "none") =>
           /\ registry = {}
           /\ returned.invoked = {}
           /\ \A t \in Properties, i \in AllIdentifiers :
                  ~AttributeEvents_contains(attributeevents, t, i)

\* A remove() raised and left the listener registered and invoked.
RemoveAllFailedHappened ==
    /\ Called("AttributeEvents.remove")
    /\ last.arg = NoneObj
    /\ last.raised = "InvalidRequestError"
    /\ returned.invoked # {}

\* The last call was remove(target) for a target that was registered.
RemovedRegisteredTarget ==
    /\ Called("AttributeEvents.remove")
    /\ last.arg \in before.self._scalar_targets \cup before.self._collection_targets

\* The targets other than the removed one are registered as before.
OthersUnchanged ==
    /\ \A r \in registry \cup before.registry :
           r[1] # last.arg => (r \in registry <=> r \in before.registry)
    /\ \A t \in Properties \ {last.arg}, i \in AllIdentifiers :
           AttributeEvents_contains(attributeevents, t, i) <=>
               AttributeEvents_contains(before.self, t, i)

\* C30 as stated: remove(target) for a registered target completes without
\* error however many identifiers are configured, stops the listener for
\* that target and leaves the other targets listening; contains(target, i)
\* is false for the removed target and as before for the others.
C30_RemoveTarget ==
    RemovedRegisteredTarget =>
        /\ last.raised = "none"
        /\ \A r \in registry : r[1] # last.arg
        /\ \A i \in AllIdentifiers : ~AttributeEvents_contains(attributeevents, last.arg, i)
        /\ OthersUnchanged

\* What remove(target) does when the registered listener is the one of the
\* object: it completes for one identifier and raises KeyError for more,
\* having removed the first two; the other targets are as before.
RemoveTargetAsCoded ==
    (RemovedRegisteredTarget /\ last.raised # "InvalidRequestError") =>
        LET n == IF last.arg \in before.self._scalar_targets
                 THEN Len(before.self._scalar_identifiers)
                 ELSE Len(before.self._collection_identifiers)
        IN  /\ last.raised = IF n = 1 THEN "none" ELSE "KeyError"
            /\ \A i \in AllIdentifiers : ~AttributeEvents_contains(attributeevents, last.arg, i)
            /\ Cardinality({r \in registry : r[1] = last.arg}) = IF n > 2 THEN n - 2 ELSE 0
            /\ OthersUnchanged

\* remove(target) raised KeyError.
RemoveTargetFailedHappened == RemovedRegisteredTarget /\ last.raised = "KeyError"

(***************************************************************************)
(* The ordering of SeismicEvent.  functools.total_ordering derives __le__, *)
(* __gt__ and __ge__ from __lt__ and __eq__; the events carry a column     *)
(* that is not part of the compared tuple.                                 *)
(***************************************************************************)
\* SeismicEvent(datetime_value=t, magnitude_value=m, x_value=x)
SeismicEventAt(t, m, x) ==
    [id |-> None, datetime_value |-> t, magnitude_value |-> m, x_value |-> x,
     seismiccatalog_id |-> None, seismiccatalog |-> NoneObj]

Magnitudes == {1, 2}

Eastings == {1, 2}

\* __le__ of total_ordering: self < other or self == other
SeismicEvent_le(heap, self, other) ==
    LET lt == SeismicEvent_lt(heap, self, other)
    IN  IF lt.raised # "none" \/ lt.value = TheBool(TRUE) THEN lt
        ELSE SeismicEvent_eq(heap, self, other)

\* __gt__ of total_ordering: not self < other and self != other
SeismicEvent_gt(heap, self, other) ==
    LET lt == SeismicEvent_lt(heap, self, other)
    IN  IF lt.raised # "none" THEN lt
        ELSE IF lt.value = TheBool(TRUE) THEN [value |-> TheBool(FALSE), raised |-> "none"]
        ELSE SeismicEvent_ne(heap, self, other)

\* __ge__ of total_ordering: not self < other
SeismicEvent_ge(heap, self, other) ==
    LET lt == SeismicEvent_lt(heap, self, other)
    IN  IF lt.raised # "none" THEN lt
        ELSE [value |-> TheBool(lt.value # TheBool(TRUE)), raised |-> "none"]

OrderingOps == {"<", "<=", ">", ">="}

\* returned = (self op other) for two SeismicEvent objects
SeismicEventOrder(op, self, other) ==
    /\ calls < MaxCalls
    /\ \E r \in {CASE op = "<" -> SeismicEvent_lt(seismicevent, self, other)
                   [] op = "<=" -> SeismicEvent_le(seismicevent, self, other)
                   [] op = ">" -> SeismicEvent_gt(seismicevent, self, other)
                   [] op = ">=" -> SeismicEvent_ge(seismicevent, self, other)} :
           /\ returned' = r.value
           /\ last' = OpRecord("SeismicEvent." \o op, self, other, FALSE, NoneArg, r.raised)
    /\ calls' = calls + 1
    /\ before' = StateBefore
    /\ UNCHANGED seriesvars
    /\ UNCHANGED forecastvars
    /\ UNCHANGED othervars

NextOrdering ==
    \E op \in OrderingOps, self \in DOMAIN seismicevent, other \in DOMAIN seismicevent :
        SeismicEventOrder(op, AnEvent(self), AnEvent(other))

\* Two events that belong to no catalog.
InitOrdering ==
    \E t1 \in Times, t2 \in Times, m1 \in Magnitudes, m2 \in Magnitudes,
       x1 \in Eastings, x2 \in Eastings :
        /\ seismicevent = <<SeismicEventAt(t1, m1, x1), SeismicEventAt(t2, m2, x2)>>
        /\ events = <<>>
        /\ samples = <<>>
        /\ hydraulicsample = <<>>
        /\ calls = 0
        /\ last = NoCall
        /\ before = [events |-> <<>>,
                     seismicevent |-> <<SeismicEventAt(t1, m1, x1), SeismicEventAt(t2, m2, x2)>>,
                     samples |-> <<>>, hydraulicsample |-> <<>>]
        /\ returned = TheNone
        /\ NoForecast
        /\ NoOthers

SpecOrdering == InitOrdering /\ [][NextOrdering]_vars

\* key(a) < key(b) for key(e) = (e.datetime_value, e.magnitude_value)
KeyLess(a, b) ==
    \/ a.datetime_value < b.datetime_value
    \/ a.datetime_value = b.datetime_value /\ a.magnitude_value < b.magnitude_value

KeyEqual(a, b) ==
    a.datetime_value = b.datetime_value /\ a.magnitude_value = b.magnitude_value

Ordered(op) == calls > 0 /\ last.op = "SeismicEvent." \o op

LeftEvent == seismicevent[last.self.id]

RightEvent == seismicevent[last.other.id]

\* C29 as stated: the four comparison operators of SeismicEvent agree with
\* the lexicographic order of the tuples (datetime_value, magnitude_value):
\* a < b, a <= b, a > b and a >= b are each what the keys of a and b give.
C29_OrderingAgreesWithKey ==
    /\ Ordered("<") => returned = TheBool(KeyLess(LeftEvent, RightEvent))
    /\ Ordered("<=") => returned = TheBool(KeyLess(LeftEvent, RightEvent)
                                               \/ KeyEqual(LeftEvent, RightEvent))
    /\ Ordered(">") => returned = TheBool(KeyLess(RightEvent, LeftEvent))
    /\ Ordered(">=") => returned = TheBool(~KeyLess(LeftEvent, RightEvent))

\* What the operators give: < and >= follow the keys; <= and > follow them
\* unless the keys are equal and another column differs, where a <= b is
\* false and a > b is true.
OrderingAsCoded ==
    LET same == LeftEvent.x_value = RightEvent.x_value
    IN  /\ Ordered("<") => returned = TheBool(KeyLess(LeftEvent, RightEvent))
        /\ Ordered(">=") => returned = TheBool(~KeyLess(LeftEvent, RightEvent))
        /\ Ordered("<=") => returned = TheBool(\/ KeyLess(LeftEvent, RightEvent)
                                               \/ KeyEqual(LeftEvent, RightEvent) /\ same)
        /\ Ordered(">") => returned = TheBool(\/ KeyLess(RightEvent, LeftEvent)
                                              \/ KeyEqual(LeftEvent, RightEvent) /\ ~same)

\* a <= b was false for two events of equal key.
EqualKeyNotLessEqualHappened ==
    /\ Ordered("<=")
    /\ KeyEqual(LeftEvent, RightEvent)
    /\ returned = TheBool(FALSE)

====
